---- MODULE Spec2Model ----
(***************************************************************************)
(* Model of mobx-mantle's createView component function, the View base    *)
(* class and the behavior lifecycle helpers, driven by a React-like host:  *)
(* render, layout-effect commit, passive-effect commit, effect teardown,   *)
(* effect re-run on the same instance (StrictMode / re-show) and class     *)
(* hot-swap.                                                               *)
(***************************************************************************)
EXTENDS Integers, Sequences, FiniteSets, TLC

\* ------------------------------------------------------------------ bounds
MaxBehaviors == 2   \* behaviors held by one view instance
MaxRenders   == 2   \* render passes of the component occurrence
MaxReruns    == 1   \* effect re-runs: teardown + re-create on the same instance, or hot-swap

\* ------------------------------------------------------------- value sets
Hooks == {"onLayoutMount", "onMount", "onUnmount"}

\* what one invocation of onLayoutMount / onMount can do
MountOutcomes == {"void", "fn", "promise", "throw"}
\* what one invocation of onUnmount, onCreate or a cleanup callable can do
CallOutcomes == {"void", "throw"}

\* a captured cleanup slot: nothing, a callable, or a (non-callable) Promise;
\* gen tells which effect run produced the value
NoCleanup == [k |-> "none", gen |-> 0]

\* props objects: an identity plus own enumerable keys with their values
Keys == {"x", "y"}
Vals == {"undefined", "a"}
Contents == UNION {[S -> Vals] : S \in SUBSET Keys}
NoProps == [id |-> 0, c |-> <<>>]

VARIABLES
    stage,        \* position of the host in its render / commit / teardown pump
    viewClass,    \* the ViewClass closed over by the component function
    classRef,     \* classRef.current
    vmRef,        \* vmRef.current: the instance's identity, 0 for null
    prevPropsRef, \* prevPropsRef.current
    insts,        \* the instances still referenced by vmRef or by a mounted effect
    layoutFx,     \* the mounted layout-mount effect: its vm and its cleanup closure
    passiveFx,    \* the mounted mount effect: its vm and its cleanup closure
    hostProps,    \* the props object the host supplied to the latest render
    hostRef,      \* the ref the host supplied to the latest render
    nextPropsId,  \* identity of the next props object the host allocates
    propsRead,    \* what this.props returned when read while producing the latest render output
    createRead,   \* what this.props returned inside onCreate, when the latest render ran it
    notified,     \* props values delivered to a reaction observing props, by handler
    wrote,        \* whether the latest layout commit made the transactional props write
    createOut,    \* what constructing the instance did in the latest render ("none": no construction)
    renderLog,    \* the steps the latest render pass performed, in order
    onCreateCalls, \* per instance identity, how often the view's onCreate was invoked
    phaseLog,     \* per instance identity, the lifecycle phases it went through, in order
    op,           \* the handler that ran last
    trace,        \* hook and cleanup invocations of the handler that ran last
    reports,      \* reportError calls of the handler that ran last
    escaped,      \* whether the handler that ran last let an exception reach the host
    gen,          \* number of layout-mount effect runs so far
    renders,      \* render passes so far
    remounts,     \* effect re-runs on the same instance so far
    swaps,        \* hot-swaps so far
    klass,        \* the class whose instances are classified
    made,         \* instances of klass classified so far
    firstInst,    \* the first instance of klass: its field values and its annotations
    lastInst,     \* the latest instance of klass: its field values and its annotations
    lastBehavior, \* the latest behavior instance with klass's members, and how many were made
    globalConfig, \* the process-wide configuration object
    configLog,    \* the arguments of the configure() calls so far, oldest first
    delivered,    \* the handler invocations of the latest operation
    configAtCreate, \* globalConfig as it was when the current instance was created
    diagnostics,  \* the misuse diagnostics logged by the latest operation
    viewFactory,  \* what createView(ViewClass, options) built
    behaviorFactory, \* what createBehavior(Def, options) built
    modes,        \* the classification modes used for the latest instance
    ownProps,     \* a view instance's own properties, in creation order: [key, value]
    ownAtCollect, \* ownProps as it was when _collectBehaviors ran
    behaviors_,   \* that instance's _behaviors: [key, instance], key being the property read
    collectStage, \* how far the creation of that instance has come
    assigns,      \* property writes to that instance after its creation so far
    compared,     \* the latest shallowEqual call: its arguments and what it returned
    construction, \* the latest call of a behavior factory: its arguments, steps and result
    probe,        \* the latest isBehavior call: its argument and what it returned
    shared        \* a view whose properties may hold one behavior instance twice

vars == <<stage, viewClass, classRef, vmRef, prevPropsRef, insts, layoutFx, passiveFx,
          hostProps, hostRef, nextPropsId, propsRead, createRead, notified, wrote, createOut,
          renderLog, onCreateCalls, phaseLog, op, trace, reports,
          escaped, gen, renders, remounts, swaps, klass, made, firstInst, lastInst,
          lastBehavior,
          globalConfig, configLog, delivered, configAtCreate, diagnostics,
          viewFactory, behaviorFactory, modes,
          ownProps, ownAtCollect, behaviors_, collectStage, assigns, compared,
          construction, probe, shared>>

classifyVars == <<klass, made, firstInst, lastInst, lastBehavior>>

configVars == <<globalConfig, configLog, delivered, configAtCreate>>

modeVars == <<viewFactory, behaviorFactory, modes>>

pureVars == <<compared, construction, probe, shared>>

collectVars == <<ownProps, ownAtCollect, behaviors_, collectStage, assigns>>

\* ------------------------------------------------------------ error sink
\* reportError(e, context): the call hands the context to the configured sink
ErrorContext(phase, who, ofBehavior) ==
    [phase |-> phase, who |-> who, isBehavior |-> ofBehavior]

ReportError(ctx) == <<ctx>>

\* ---------------------------------------------------------- configuration
MaxConfigures == 2   \* configure() calls in one run

\* handlers the application installs; "console.error" is the default
Handlers == {"h1", "h2"}

ConfigFields == {"autoObservable", "onError"}

\* export const globalConfig = { autoObservable: true } and the default handler
DefaultConfig == [autoObservable |-> TRUE, onError |-> "console.error"]

\* the objects passed to configure(): any subset of the fields
ConfigArgs ==
    {<<>>}
        \cup {[f \in {"autoObservable"} |-> FALSE]}
        \cup {[f \in {"onError"} |-> h] : h \in Handlers}
        \cup {[autoObservable |-> FALSE, onError |-> h] : h \in Handlers}

\* Object.assign(globalConfig, config): the fields of config overwrite, the
\* other fields stay
ObjectAssign(target, source) ==
    [f \in DOMAIN target |-> IF f \in DOMAIN source THEN source[f] ELSE target[f]]

\* mutant: every report goes to the default handler
DeliverToDefault(rs, cfg, calls) ==
    [p \in 1..Len(rs) |-> [handler |-> "console.error", context |-> rs[p], after |-> calls]]

\* reportError reads the handler from globalConfig when the error is reported;
\* calls: the configure() calls made before the report
Deliver(rs, cfg, calls) ==
    [p \in 1..Len(rs) |-> [handler |-> cfg.onError, context |-> rs[p], after |-> calls]]

\* the options object of createView / createBehavior: {} or { autoObservable }
FactoryOptions == {<<>>} \cup {[f \in {"autoObservable"} |-> b] : b \in BOOLEAN}

\* mutant: the option is ignored
GlobalOnly(options, cfg) == cfg.autoObservable

\* createView: `const { autoObservable = globalConfig.autoObservable } = options`
ViewAutoObservable(options, cfg) ==
    IF "autoObservable" \in DOMAIN options THEN options.autoObservable
    ELSE cfg.autoObservable

\* createBehavior, in the constructor:
\* `options?.autoObservable ?? globalConfig.autoObservable`
BehaviorAutoObservable(options, cfg) ==
    IF "autoObservable" \in DOMAIN options THEN options.autoObservable
    ELSE cfg.autoObservable

\* no factory yet; after: the configure() calls made before the factory was built
NoViewFactory == [built |-> FALSE, options |-> <<>>, autoObservable |-> TRUE, after |-> 0]

NoBehaviorFactory == [built |-> FALSE, options |-> <<>>, after |-> 0]

\* classified: a view instance was classified; view: the flag it was classified
\* under; embedded: it holds behaviors; behavior: the flag their constructors
\* used; after: the configure() calls made before the instance was created
NoModes ==
    [classified |-> FALSE, view |-> TRUE, embedded |-> FALSE, behavior |-> TRUE, after |-> 0]

\* ------------------------------------------------------- invocation records
\* gen: the effect run that produced the invoked value; at: the effect run the
\* invocation belongs to
Ev(who, step, out, g, at) ==
    [who |-> who, step |-> step, out |-> out, gen |-> g, at |-> at]

\* the value a non-throwing mount hook leaves in a cleanup slot
Captured(out, g) ==
    IF out \in {"fn", "promise"} THEN [k |-> out, gen |-> g] ELSE NoCleanup

\* `slot?.()`: nothing when the slot is empty, a TypeError when it holds a
\* Promise, otherwise the callable runs and does what `out` says
CallCleanup(slot, who, step, out, at) ==
    IF slot.k = "none" THEN [trace |-> <<>>, threw |-> FALSE]
    ELSE IF slot.k = "promise"
         THEN [trace |-> <<Ev(who, step, "typeerror", slot.gen, at)>>, threw |-> TRUE]
         ELSE [trace |-> <<Ev(who, step, out, slot.gen, at)>>, threw |-> out = "throw"]

\* ----------------------------------------------------- behavior lifecycle
NewEntry(hooks) == [hooks |-> hooks, layoutCleanup |-> NoCleanup, cleanup |-> NoCleanup]

\* mutant: a behavior's onLayoutMount failure is swallowed without a report
LayoutMountBehaviorSilent(behavior, i, out, g) ==
    IF "onLayoutMount" \in behavior.hooks
    THEN IF out = "throw"
         THEN [entry |-> behavior,
               trace |-> <<Ev(i, "onLayoutMount", out, g, g)>>,
               reports |-> <<>>]
         ELSE [entry |-> [behavior EXCEPT !.layoutCleanup = Captured(out, g)],
               trace |-> <<Ev(i, "onLayoutMount", out, g, g)>>,
               reports |-> <<>>]
    ELSE [entry |-> behavior, trace |-> <<>>, reports |-> <<>>]

layoutMountBehavior(behavior, i, out, g) ==
    IF "onLayoutMount" \in behavior.hooks
    THEN IF out = "throw"
         THEN [entry |-> behavior,
               trace |-> <<Ev(i, "onLayoutMount", out, g, g)>>,
               reports |-> ReportError(ErrorContext("onLayoutMount", i, TRUE))]
         ELSE [entry |-> [behavior EXCEPT !.layoutCleanup = Captured(out, g)],
               trace |-> <<Ev(i, "onLayoutMount", out, g, g)>>,
               reports |-> <<>>]
    ELSE [entry |-> behavior, trace |-> <<>>, reports |-> <<>>]

\* mutant: the behavior's onMount failure is reported as the view's
MountBehaviorAsView(behavior, i, out, g) ==
    IF "onMount" \in behavior.hooks
    THEN IF out = "throw"
         THEN [entry |-> behavior,
               trace |-> <<Ev(i, "onMount", out, g, g)>>,
               reports |-> ReportError(ErrorContext("onMount", i, FALSE))]
         ELSE [entry |-> [behavior EXCEPT !.cleanup = Captured(out, g)],
               trace |-> <<Ev(i, "onMount", out, g, g)>>,
               reports |-> <<>>]
    ELSE [entry |-> behavior, trace |-> <<>>, reports |-> <<>>]

mountBehavior(behavior, i, out, g) ==
    IF "onMount" \in behavior.hooks
    THEN IF out = "throw"
         THEN [entry |-> behavior,
               trace |-> <<Ev(i, "onMount", out, g, g)>>,
               reports |-> ReportError(ErrorContext("onMount", i, TRUE))]
         ELSE [entry |-> [behavior EXCEPT !.cleanup = Captured(out, g)],
               trace |-> <<Ev(i, "onMount", out, g, g)>>,
               reports |-> <<>>]
    ELSE [entry |-> behavior, trace |-> <<>>, reports |-> <<>>]

\* o = [lc, c, u]: what the layout cleanup, the cleanup and onUnmount do
unmountBehavior(behavior, i, o, g) ==
    LET lc == CallCleanup(behavior.layoutCleanup, i, "layoutCleanup", o.lc, g)
        c  == CallCleanup(behavior.cleanup, i, "cleanup", o.c, g)
    IN IF lc.threw THEN [trace |-> lc.trace, reports |-> <<>>, threw |-> TRUE]
       ELSE IF c.threw
            THEN [trace |-> lc.trace \o c.trace, reports |-> <<>>, threw |-> TRUE]
            ELSE IF "onUnmount" \in behavior.hooks
                 THEN [trace |-> lc.trace \o c.trace \o <<Ev(i, "onUnmount", o.u, g, g)>>,
                       reports |-> IF o.u = "throw"
                                   THEN ReportError(ErrorContext("onUnmount", i, TRUE))
                                   ELSE <<>>,
                       threw |-> FALSE]
                 ELSE [trace |-> lc.trace \o c.trace, reports |-> <<>>, threw |-> FALSE]

\* View._layoutMountBehaviors: for (const behavior of this._behaviors) ...
RECURSIVE LayoutMountFrom(_, _, _, _)
LayoutMountFrom(behaviors, outs, g, i) ==
    IF i > Len(behaviors)
    THEN [behaviors |-> behaviors, trace |-> <<>>, reports |-> <<>>]
    ELSE LET r    == layoutMountBehavior(behaviors[i], i, outs[i], g)
             rest == LayoutMountFrom([behaviors EXCEPT ![i] = r.entry], outs, g, i + 1)
         IN [behaviors |-> rest.behaviors,
             trace |-> r.trace \o rest.trace,
             reports |-> r.reports \o rest.reports]

_layoutMountBehaviors(behaviors, outs, g) == LayoutMountFrom(behaviors, outs, g, 1)

\* View._mountBehaviors
RECURSIVE MountFrom(_, _, _, _)
MountFrom(behaviors, outs, g, i) ==
    IF i > Len(behaviors)
    THEN [behaviors |-> behaviors, trace |-> <<>>, reports |-> <<>>]
    ELSE LET r    == mountBehavior(behaviors[i], i, outs[i], g)
             rest == MountFrom([behaviors EXCEPT ![i] = r.entry], outs, g, i + 1)
         IN [behaviors |-> rest.behaviors,
             trace |-> r.trace \o rest.trace,
             reports |-> r.reports \o rest.reports]

\* mutant: the loop ends at the first hook that throws
MountBehaviorsUntilThrow(behaviors, outs, g) ==
    LET full   == MountFrom(behaviors, outs, g, 1)
        throws == {p \in 1..Len(full.trace) : full.trace[p].out = "throw"}
        first  == CHOOSE p \in throws : \A q \in throws : p <= q
    IN IF throws = {} THEN full
       ELSE [behaviors |-> full.behaviors,
             trace |-> SubSeq(full.trace, 1, first),
             reports |-> full.reports]

_mountBehaviors(behaviors, outs, g) == MountFrom(behaviors, outs, g, 1)

\* View._unmountBehaviors: an exception leaving unmountBehavior ends the loop
RECURSIVE UnmountFrom(_, _, _, _)
UnmountFrom(behaviors, outs, g, i) ==
    IF i > Len(behaviors)
    THEN [trace |-> <<>>, reports |-> <<>>, threw |-> FALSE]
    ELSE LET r == unmountBehavior(behaviors[i], i, outs[i], g)
         IN IF r.threw THEN r
            ELSE LET rest == UnmountFrom(behaviors, outs, g, i + 1)
                 IN [trace |-> r.trace \o rest.trace,
                     reports |-> r.reports \o rest.reports,
                     threw |-> rest.threw]

_unmountBehaviors(behaviors, outs, g) == UnmountFrom(behaviors, outs, g, 1)

\* ------------------------------------------------------------------ props
\* shallowEqual(a, b): a[key] of a missing key reads as undefined
Lookup(o, key) == IF key \in DOMAIN o.c THEN o.c[key] ELSE "undefined"

\* mutant: no two values are equal
NeverEqual(a, b) == FALSE

shallowEqual(a, b) ==
    IF a.id = b.id THEN TRUE
    ELSE IF a.id = 0 \/ b.id = 0 THEN FALSE
    ELSE IF Cardinality(DOMAIN a.c) /= Cardinality(DOMAIN b.c) THEN FALSE
    ELSE \A key \in DOMAIN a.c : Lookup(a, key) = Lookup(b, key)

\* observable.box(props, { deep: false })
ObservableBox(value) == [value_ |-> value]

\* IObservableValue.get()
BoxGet(box) == box.value_

\* IObservableValue.set(value) inside runInAction: the box compares the new
\* value with value_ by identity and reports a change to its observers only
\* when they differ
BoxSet(box, value) ==
    IF box.value_.id = value.id
    THEN [box |-> box, woke |-> FALSE]
    ELSE [box |-> [box EXCEPT !.value_ = value], woke |-> TRUE]

\* mutant: the render pass leaves value_ alone
SyncPropsSkipped(box, value) == [box |-> box, woke |-> FALSE]

\* mutant: the render pass writes through the notifying setter
SyncPropsThroughSet(box, value) ==
    [box |-> [box EXCEPT !.value_ = value], woke |-> box.value_.id /= value.id]

\* View._syncProps(value): writes value_ directly, tells no observer
_syncProps(box, value) == [box |-> [box EXCEPT !.value_ = value], woke |-> FALSE]

\* mutant: the deferred commit writes the box but forgets the snapshot
PropsCommitKeepsSnapshot(prev, props, box) ==
    IF ~shallowEqual(prev, props)
    THEN [prev |-> prev, box |-> box, woke |-> FALSE, wrote |-> TRUE]
    ELSE [prev |-> prev, box |-> box, woke |-> FALSE, wrote |-> FALSE]

\* the deferred commit effect of createView
PropsCommitEffect(prev, props, box) ==
    IF ~shallowEqual(prev, props)
    THEN LET w == BoxSet(box, props)
         IN [prev |-> props, box |-> w.box, woke |-> w.woke, wrote |-> TRUE]
    ELSE [prev |-> prev, box |-> box, woke |-> FALSE, wrote |-> FALSE]

\* ------------------------------------------------------- the view's effects
NoFx == [vm |-> 0, cleanup |-> NoCleanup, gen |-> 0]

\* process.env.NODE_ENV !== 'production': the build that logs diagnostics
Development == TRUE

\* `if (process.env.NODE_ENV !== 'production' && result instanceof Promise)
\* console.error(...)`
PromiseDiagnostic(phase, out) ==
    IF Development /\ out = "promise" THEN <<[phase |-> phase, who |-> 0]>> ELSE <<>>

\* the component function entered while propsNotifyingRef.current is true,
\* that is, between `propsNotifyingRef.current = true` and `= false` of the
\* deferred commit: `console.warn(...)` in a development build. The function
\* is entered there when a reaction the box notifies re-renders the view.
PropsDriftWarning(notifying, rerendered) ==
    IF Development /\ notifying /\ rerendered
    THEN <<[phase |-> "propsChange", who |-> 0]>> ELSE <<>>

\* the view's own onLayoutMount / onMount inside try / catch
ViewMountHook(hooks, phase, out, g) ==
    IF phase \in hooks
    THEN IF out = "throw"
         THEN [cleanup |-> NoCleanup,
               trace |-> <<Ev(0, phase, out, g, g)>>,
               reports |-> ReportError(ErrorContext(phase, 0, FALSE)),
               diagnostics |-> <<>>]
         ELSE [cleanup |-> Captured(out, g),
               trace |-> <<Ev(0, phase, out, g, g)>>,
               reports |-> <<>>,
               diagnostics |-> PromiseDiagnostic(phase, out)]
    ELSE [cleanup |-> NoCleanup, trace |-> <<>>, reports |-> <<>>, diagnostics |-> <<>>]

\* mutant: the view's hook runs before the behaviors'
LayoutMountViewFirst(inst, outs, vout, g) ==
    LET b == _layoutMountBehaviors(inst.behaviors, outs, g)
        v == ViewMountHook(inst.hooks, "onLayoutMount", vout, g)
    IN [behaviors |-> b.behaviors,
        cleanup |-> v.cleanup,
        trace |-> v.trace \o b.trace,
        reports |-> v.reports \o b.reports,
        diagnostics |-> v.diagnostics]

\* useLayoutEffect(() => { vm._layoutMountBehaviors(); ... }, [vm])
LayoutMountEffect(inst, outs, vout, g) ==
    LET b == _layoutMountBehaviors(inst.behaviors, outs, g)
        v == ViewMountHook(inst.hooks, "onLayoutMount", vout, g)
    IN [behaviors |-> b.behaviors,
        cleanup |-> v.cleanup,
        trace |-> b.trace \o v.trace,
        reports |-> b.reports \o v.reports,
        diagnostics |-> v.diagnostics]

\* useEffect(() => { vm._mountBehaviors(); ... }, [vm])
MountEffect(inst, outs, vout, g) ==
    LET b == _mountBehaviors(inst.behaviors, outs, g)
        v == ViewMountHook(inst.hooks, "onMount", vout, g)
    IN [behaviors |-> b.behaviors,
        cleanup |-> v.cleanup,
        trace |-> b.trace \o v.trace,
        reports |-> b.reports \o v.reports,
        diagnostics |-> v.diagnostics]

\* the layout effect's destroy function: () => { cleanup?.(); }
\* mutant: the layout effect's destroy function forgets the cleanup
LayoutMountDestroyEmpty(fx, out) == [trace |-> <<>>, reports |-> <<>>, threw |-> FALSE]

LayoutMountDestroy(fx, out) ==
    LET c == CallCleanup(fx.cleanup, 0, "layoutCleanup", out, fx.gen)
    IN [trace |-> c.trace, reports |-> <<>>, threw |-> c.threw]

\* mutant: behaviors are unmounted before the view's own steps
MountDestroyBehaviorsFirst(fx, inst, vo, outs) ==
    LET c == CallCleanup(fx.cleanup, 0, "cleanup", vo.c, fx.gen)
        u == IF "onUnmount" \in inst.hooks
             THEN <<Ev(0, "onUnmount", vo.u, fx.gen, fx.gen)>> ELSE <<>>
        b == _unmountBehaviors(inst.behaviors, outs, fx.gen)
    IN [trace |-> b.trace \o c.trace \o u, reports |-> b.reports, threw |-> b.threw]

\* the mount effect's destroy function:
\* () => { cleanup?.(); try { vm.onUnmount?.() } catch ...; vm._unmountBehaviors(); }
MountDestroy(fx, inst, vo, outs) ==
    LET c == CallCleanup(fx.cleanup, 0, "cleanup", vo.c, fx.gen)
        u == IF "onUnmount" \in inst.hooks
             THEN [trace |-> <<Ev(0, "onUnmount", vo.u, fx.gen, fx.gen)>>,
                   reports |-> IF vo.u = "throw"
                               THEN ReportError(ErrorContext("onUnmount", 0, FALSE))
                               ELSE <<>>]
             ELSE [trace |-> <<>>, reports |-> <<>>]
        b == _unmountBehaviors(inst.behaviors, outs, fx.gen)
    IN IF c.threw
       THEN [trace |-> c.trace, reports |-> <<>>, threw |-> TRUE]
       ELSE [trace |-> c.trace \o u.trace \o b.trace,
             reports |-> u.reports \o b.reports,
             threw |-> b.threw]

\* ------------------------------------------------------- classification
MaxInstances == 2   \* instances of one class that are classified

\* mutant: nothing is reserved
NoExcludes == {}

\* base class members that are never classified
BASE_EXCLUDES ==
    {"props", "_propsBox", "forwardRef", "onCreate", "onLayoutMount", "onMount",
     "onUnmount", "render", "ref", "constructor", "_behaviors", "_collectBehaviors",
     "_layoutMountBehaviors", "_mountBehaviors", "_unmountBehaviors", "_syncProps"}

\* names every plain object inherits, for which `key in annotations` is true
\* of the empty annotations object
ObjectPrototypeKeys == {"toString", "valueOf", "hasOwnProperty", "constructor"}

\* own fields every view instance has when it is classified
BaseFields == {"_behaviors", "_propsBox", "forwardRef"}

\* member names of the modelled classes, in property creation order
NameOrder == <<"_behaviors", "count", "render", "toString", "_propsBox", "forwardRef">>

\* what the member `count` of a class is
CountKinds == {"absent", "field", "getter", "method", "setter", "fieldOverMethod"}

\* values an own field can hold when the instance is classified; refLike is an
\* object {current: ...} that View.ref() did not create
ValueKinds == {"plain", "null", "refLike", "viewRef", "behavior", "function"}

\* annotations a decorator can declare
DeclaredAs == {"observable.shallow", "action"}

NoDeclared == [has |-> FALSE, entries |-> <<>>]

\* a class: what `count` is, whether it defines render() and toString(), the
\* annotations its decorators stored (setAnnotation, in decoration order) and
\* the autoObservable setting in force for it
Declarations ==
    {NoDeclared}
        \cup {[has |-> TRUE, entries |-> <<[key |-> "count", as |-> x]>>] : x \in DeclaredAs}
        \cup {[has |-> TRUE, entries |-> <<[key |-> "toString", as |-> "action"]>>]}

Classes ==
    {k \in [count : CountKinds, render : BOOLEAN, toString : BOOLEAN,
            declared : Declarations, autoObservable : BOOLEAN] :
        \A p \in 1..Len(k.declared.entries) :
            /\ k.declared.entries[p].key = "count" => k.count /= "absent"
            /\ k.declared.entries[p].key = "toString" => k.toString}

NoClass ==
    [count |-> "absent", render |-> FALSE, toString |-> FALSE, declared |-> NoDeclared,
     autoObservable |-> FALSE]

HasField(k) == k.count \in {"field", "fieldOverMethod"}

\* an instance as the classifier sees it: own enumerable properties with the
\* kind of value each holds, and the descriptors of its prototype below View
Instantiate(k, value) ==
    [own   |-> [key \in BaseFields \cup (IF HasField(k) THEN {"count"} ELSE {}) |->
                    IF key = "count" THEN value ELSE "plain"],
     proto |-> [key \in (IF k.count \in {"getter", "method", "setter", "fieldOverMethod"}
                         THEN {"count"} ELSE {})
                        \cup (IF k.render THEN {"render"} ELSE {})
                        \cup (IF k.toString THEN {"toString"} ELSE {}) |->
                    IF key = "count" /\ k.count /= "fieldOverMethod" THEN k.count
                    ELSE "method"]]

KeysOf(f) == SelectSeq(NameOrder, LAMBDA key : key \in DOMAIN f)

\* an annotations object, kept as the sequence of assignments that built it
Written(ann) == {ann[p].key : p \in 1..Len(ann)}

WrittenTimes(ann, key) == Cardinality({p \in 1..Len(ann) : ann[p].key = key})

AnnotationMap(ann) ==
    [key \in Written(ann) |->
        ann[CHOOSE p \in 1..Len(ann) :
                /\ ann[p].key = key
                /\ \A q \in 1..Len(ann) : ann[q].key = key => q <= p].as]

\* mutant: the membership test never finds the key
NeverInAnnotations(key, ann) == FALSE

\* `key in annotations`
InAnnotations(key, ann) == key \in Written(ann) \cup ObjectPrototypeKeys

isBehavior(value) == value = "behavior"

\* mutant: a ref is recognised by its structure
IsRefLike(value) == value \in {"viewRef", "refLike"}

\* isViewRef: the value is an object that View.ref() registered
isViewRef(value) == value = "viewRef"

\* makeViewObservable, first loop: own properties
RECURSIVE ScanOwn(_, _, _)
ScanOwn(keys, own, ann) ==
    IF keys = <<>> THEN ann
    ELSE LET key   == Head(keys)
             value == own[key]
             next  == IF key \in BASE_EXCLUDES THEN ann
                      ELSE IF InAnnotations(key, ann) THEN ann
                      ELSE IF value = "function" THEN ann
                      ELSE IF isBehavior(value)
                           THEN Append(ann, [key |-> key, as |-> "observable.ref"])
                      ELSE IF isViewRef(value)
                           THEN Append(ann, [key |-> key, as |-> "observable.ref"])
                      ELSE Append(ann, [key |-> key, as |-> "observable"])
         IN ScanOwn(Tail(keys), own, next)

\* makeViewObservable, second loop: the prototype's descriptors
RECURSIVE WalkProto(_, _, _, _)
WalkProto(keys, proto, ann, autoBind) ==
    IF keys = <<>> THEN ann
    ELSE LET key  == Head(keys)
             next == IF key \in BASE_EXCLUDES THEN ann
                     ELSE IF InAnnotations(key, ann) THEN ann
                     ELSE IF proto[key] = "getter"
                          THEN Append(ann, [key |-> key, as |-> "computed"])
                     ELSE IF proto[key] = "method"
                          THEN Append(ann, [key |-> key,
                                            as |-> IF autoBind THEN "action.bound" ELSE "action"])
                     ELSE ann
         IN WalkProto(Tail(keys), proto, next, autoBind)

makeViewObservable(instance, autoBind) ==
    WalkProto(KeysOf(instance.proto), instance.proto,
              ScanOwn(KeysOf(instance.own), instance.own, <<>>), autoBind)

\* createView, decorator branch: undecorated methods become bound actions
RECURSIVE BindMethods(_, _, _)
BindMethods(keys, proto, ann) ==
    IF keys = <<>> THEN ann
    ELSE LET key  == Head(keys)
             next == IF key \in BASE_EXCLUDES THEN ann
                     ELSE IF InAnnotations(key, ann) THEN ann
                     ELSE IF proto[key] = "method"
                          THEN Append(ann, [key |-> key, as |-> "action.bound"])
                     ELSE ann
         IN BindMethods(Tail(keys), proto, next)

\* Behavior base class members that are never classified
BEHAVIOR_EXCLUDES == {"onCreate", "onLayoutMount", "onMount", "onUnmount", "constructor"}

\* a behavior instance with the members of class k: no base fields, no render
InstantiateBehavior(k, value) ==
    [own   |-> [key \in (IF HasField(k) THEN {"count"} ELSE {}) |-> value],
     proto |-> [key \in (IF k.count \in {"getter", "method", "setter", "fieldOverMethod"}
                         THEN {"count"} ELSE {})
                        \cup (IF k.toString THEN {"toString"} ELSE {}) |->
                    IF key = "count" /\ k.count /= "fieldOverMethod" THEN k.count
                    ELSE "method"]]

\* makeBehaviorObservable, first loop: own properties
RECURSIVE ScanOwnOfBehavior(_, _, _)
ScanOwnOfBehavior(keys, own, ann) ==
    IF keys = <<>> THEN ann
    ELSE LET key   == Head(keys)
             value == own[key]
             next  == IF key \in BEHAVIOR_EXCLUDES THEN ann
                      ELSE IF InAnnotations(key, ann) THEN ann
                      ELSE IF value = "function" THEN ann
                      ELSE Append(ann, [key |-> key, as |-> "observable"])
         IN ScanOwnOfBehavior(Tail(keys), own, next)

\* makeBehaviorObservable, second loop: the prototype's descriptors
RECURSIVE WalkProtoOfBehavior(_, _, _)
WalkProtoOfBehavior(keys, proto, ann) ==
    IF keys = <<>> THEN ann
    ELSE LET key  == Head(keys)
             next == IF key \in BEHAVIOR_EXCLUDES THEN ann
                     ELSE IF InAnnotations(key, ann) THEN ann
                     ELSE IF proto[key] = "getter"
                          THEN Append(ann, [key |-> key, as |-> "computed"])
                     ELSE IF proto[key] = "method"
                          THEN Append(ann, [key |-> key, as |-> "action.bound"])
                     ELSE ann
         IN WalkProtoOfBehavior(Tail(keys), proto, next)

makeBehaviorObservable(instance) ==
    WalkProtoOfBehavior(KeysOf(instance.proto), instance.proto,
                        ScanOwnOfBehavior(KeysOf(instance.own), instance.own, <<>>))

\* createBehavior, constructor: makeBehaviorObservable(this) or makeObservable(this)
ClassifyBehavior(instance, autoObservable) ==
    IF autoObservable THEN makeBehaviorObservable(instance) ELSE <<>>

\* the behaviors held by a behavior that its lifecycle functions drive: the
\* constructor registers none and layoutMountBehavior, mountBehavior and
\* unmountBehavior call the hooks of the entry's own instance only
EmbeddedEntries(instance) == <<>>

NoBehaviorInst ==
    [made |-> 0, value |-> "plain", instance |-> InstantiateBehavior(NoClass, "plain"),
     ann |-> <<>>, entries |-> <<>>]

\* createView: the annotations handed to makeObservable for a new instance
Classify(instance, declared, autoObservable) ==
    IF declared.has
    THEN BindMethods(KeysOf(instance.proto), instance.proto, declared.entries)
    ELSE IF autoObservable THEN makeViewObservable(instance, TRUE)
    ELSE <<>>

NoInst == [value |-> "plain", instance |-> Instantiate(NoClass, "plain"), ann |-> <<>>]

NoClassification ==
    /\ klass = NoClass
    /\ made = 0
    /\ lastBehavior = NoBehaviorInst
    /\ firstInst = NoInst
    /\ lastInst = NoInst

\* ------------------------------------------------------ instance creation
\* an entity defines every lifecycle hook, only onUnmount, or none
HookSets == {{}, {"onUnmount"}, Hooks}

\* a class shape: the hooks the view defines and, per behavior-valued field in
\* declaration order, the hooks that behavior defines
\* render: whether a render method or a template function is available
Shapes ==
    {[hooks |-> h, fields |-> f, render |-> r] :
        h \in HookSets,
        f \in UNION {[1..n -> HookSets] : n \in 0..MaxBehaviors},
        r \in BOOLEAN}

ShapeOf(inst) ==
    [hooks |-> inst.hooks,
     fields |-> [i \in 1..Len(inst.behaviors) |-> inst.behaviors[i].hooks],
     render |-> inst.render]

\* A view with at most one behavior is re-rendered, has its effects re-run and
\* is hot-swapped; a view with more behaviors is rendered once, mounted and
\* unmounted.
Small(shape) == Len(shape.fields) <= 1

\* props contents the host supplies: single-key objects for a view without
\* behaviors, the objects with key x for a view with behaviors
ContentsFor(shape) ==
    IF Len(shape.fields) = 0
    THEN {c \in Contents : Cardinality(DOMAIN c) = 1}
    ELSE {c \in Contents : DOMAIN c = {"x"}}

Refs == {0, 1}

\* the refs the host supplies
RefsFor(shape) == IF Len(shape.fields) = 0 THEN Refs ELSE {0}

\* what constructing the instance and calling onCreate can do: succeed, throw
\* from a behavior's onCreate (during new ViewClass()), throw from the view's
CreateOutcomes(shape) ==
    {"ok", "viewOnCreateThrows"}
        \cup (IF Len(shape.fields) > 0 THEN {"behaviorOnCreateThrows"} ELSE {})

\* View._collectBehaviors: one entry per behavior-valued own property
_collectBehaviors(fields) == [i \in 1..Len(fields) |-> NewEntry(fields[i])]

\* new ViewClass(); _propsBox = observable.box(props); forwardRef = ref;
\* _collectBehaviors()
NewInstance(cls, shape, props, ref) ==
    [cls |-> cls,
     hooks |-> shape.hooks,
     render |-> shape.render,
     behaviors |-> _collectBehaviors(shape.fields),
     _propsBox |-> ObservableBox(props),
     forwardRef |-> ref]

\* mutant: the render pass leaves the forwarded handle alone
KeepsForwardRef(inst, ref) == inst

\* `vm.forwardRef = ref` of every render pass
SetForwardRef(inst, ref) == [inst EXCEPT !.forwardRef = ref]

\* mutant: onCreate wrapped in try / catch like the other hooks
CallOnCreateCaught(out) ==
    [threw |-> FALSE,
     reports |-> IF out /= "ok" THEN ReportError(ErrorContext("onCreate", 0, FALSE))
                 ELSE <<>>]

\* `instance.onCreate?.(reactiveProps)` and the behavior constructors before it:
\* no try / catch surrounds either call
CallOnCreate(out) == [threw |-> out /= "ok", reports |-> <<>>]

\* what `template ? template(vm) : vm.render()` does in a render pass
RenderOutputs == {"element", "throws"}

\* mutant: the engine catches what the render output throws and reports it
CallRenderCaught(output) ==
    [threw |-> FALSE,
     reports |-> IF output = "throws" THEN ReportError(ErrorContext("render", 0, FALSE))
                 ELSE <<>>]

\* `useObserver(() => template ? template(vm) : vm.render())`: no try / catch
\* surrounds the call
CallRender(output) == [threw |-> output = "throws", reports |-> <<>>]

\* the steps of a render pass whose last step, the output, may throw
RenderLogged(steps, output) ==
    IF output = "throws" THEN SubSeq(steps, 1, Len(steps) - 1) \o <<"outputThrows">>
    ELSE steps

\* mutant: a class change is not noticed
NeverSwapped(vm, held, cls) == FALSE

\* mutant: every render pass of a live instance discards it
SwappedOnEveryRender(vm, held, cls) == vm /= 0

\* `if (vmRef.current && classRef.current !== ViewClass)`: the class identity
\* changed under a live instance
HotSwapped(vm, held, cls) == vm /= 0 /\ held /= cls

\* mutant: every render pass constructs
AlwaysConstructs(vm, held, cls) == TRUE

\* `if (!vmRef.current)` after the hot-swap check: this pass constructs
NeedsInstance(vm, held, cls) == vm = 0 \/ HotSwapped(vm, held, cls)

\* one more invocation of onCreate on instance vm
Invoked(calls, vm) ==
    (vm :> (IF vm \in DOMAIN calls THEN calls[vm] + 1 ELSE 1)) @@ calls

\* instance vm enters a phase (or, "Discarded", is dropped by a hot-swap)
Entered(log, vm, phase) ==
    (vm :> (IF vm \in DOMAIN log THEN Append(log[vm], phase) ELSE <<phase>>)) @@ log

\* `if (!template && !vm.render) throw new Error(...)`
MissingRender(inst) == ~inst.render

\* The steps of one pass through the component function, in program order.
\* new ViewClass() runs the field initialisers, hence the behavior factories
\* and their onCreate; the modelled view classes define onCreate.
RenderSteps(creating, cout, inst) ==
    LET construct == IF Len(inst.behaviors) > 0
                     THEN <<"construct", "behaviorOnCreate">> ELSE <<"construct">>
        creation  == IF ~creating THEN <<>>
                     ELSE IF cout = "behaviorOnCreateThrows" THEN construct
                     ELSE construct \o <<"collect", "classify", "onCreate">>
    IN IF creating /\ cout /= "ok" THEN creation
       ELSE creation \o <<"syncProps">>
                \o (IF MissingRender(inst) THEN <<"missingRender">> ELSE <<"output">>)

\* an instance no reference reaches any more is garbage
Live(all, reached) == [v \in DOMAIN all \cap reached |-> all[v]]

LifecycleInit ==
    /\ stage = "unrendered"
    /\ viewClass = 1
    /\ classRef = 1
    /\ vmRef = 0
    /\ prevPropsRef = NoProps
    /\ insts = <<>>
    /\ layoutFx = NoFx
    /\ passiveFx = NoFx
    /\ hostProps = NoProps
    /\ hostRef = 0
    /\ nextPropsId = 1
    /\ propsRead = NoProps
    /\ createRead = NoProps
    /\ notified = 0
    /\ wrote = FALSE
    /\ createOut = "none"
    /\ renderLog = <<>>
    /\ onCreateCalls = <<>>
    /\ phaseLog = <<>>
    /\ op = "init"
    /\ trace = <<>>
    /\ reports = <<>>
    /\ diagnostics = <<>>
    /\ escaped = FALSE
    /\ gen = 0
    /\ renders = 0
    /\ remounts = 0
    /\ swaps = 0

\* the configuration module as loaded
NoConfiguration ==
    /\ globalConfig = DefaultConfig
    /\ configLog = <<>>
    /\ delivered = <<>>
    /\ configAtCreate = DefaultConfig
    /\ viewFactory = NoViewFactory
    /\ behaviorFactory = NoBehaviorFactory
    /\ modes = NoModes

\* no instance whose properties are followed
NoCollection ==
    /\ ownProps = <<>>
    /\ ownAtCollect = <<>>
    /\ behaviors_ = <<>>
    /\ collectStage = "none"
    /\ assigns = 0

\* shallowEqual has not been called on its own
NoComparison == compared = [done |-> FALSE, a |-> NoProps, b |-> NoProps,
                            out |-> FALSE, back |-> FALSE]

\* JavaScript values as isBehavior sees them: the type typeof reports (null
\* apart), the class `value.constructor` resolves to along the prototype
\* chain ("none" when it resolves to nothing), and how the value was made
JsValue(type, ctor, origin) == [type |-> type, ctor |-> ctor, origin |-> origin]

NullValue == JsValue("null", "none", "literal")

\* no behavior factory has been called and isBehavior has not been called
NoConstruction ==
    /\ construction = [done |-> FALSE, how |-> "call", args |-> <<>>, log |-> <<>>,
                       value |-> NullValue]
    /\ probe = [done |-> FALSE, value |-> NullValue, out |-> FALSE]

\* no view with identified behavior instances is followed
NoShared == shared = [held |-> <<>>, entries |-> <<>>, phase |-> "none", calls |-> <<>>]

NoCalls == NoComparison /\ NoConstruction /\ NoShared

Init ==
    LifecycleInit /\ NoClassification /\ NoConfiguration /\ NoCollection /\ NoCalls

\* the reports of the operation reach the handler in force; the configuration
\* is only read
DeliverReports ==
    /\ delivered' = Deliver(reports', globalConfig, Len(configLog))
    /\ configAtCreate' = IF vmRef' /= vmRef /\ vmRef' /= 0 THEN globalConfig
                         ELSE configAtCreate
    /\ UNCHANGED <<globalConfig, configLog>>

\* ---------------------------------------------------------------- render
\* the component function of createView, one render pass
\* shapes: the classes the occurrence may be an instance of
RenderPass(shapes, outputs) ==
    /\ stage \in {"unrendered", "idle"}
    /\ renders < MaxRenders
    /\ \E swap \in BOOLEAN :
       \E shape \in IF stage = "unrendered" THEN shapes ELSE {ShapeOf(insts[vmRef])} :
       \E ref \in RefsFor(shape) :
       \E props \in {[id |-> nextPropsId, c |-> c] : c \in ContentsFor(shape)}
                       \cup (IF stage = "idle" THEN {hostProps} ELSE {}) :
        LET cls      == IF swap THEN viewClass + 1 ELSE viewClass
            discard  == HotSwapped(vmRef, classRef, cls)
            creating == NeedsInstance(vmRef, classRef, cls)
        IN
        /\ stage = "idle" => Small(shape)
        /\ swap => (stage = "idle" /\ remounts + swaps < MaxReruns)
        /\ \E cout \in IF creating THEN CreateOutcomes(shape) ELSE {"ok"} :
            LET created == NewInstance(cls, shape, props, ref)
                oc      == IF creating THEN CallOnCreate(cout)
                           ELSE [threw |-> FALSE, reports |-> <<>>]
                vm      == IF creating THEN swaps + (IF swap THEN 1 ELSE 0) + 1 ELSE vmRef
                inst    == IF creating THEN created ELSE insts[vmRef]
                sync    == _syncProps(inst._propsBox, props)
                synced  == SetForwardRef([inst EXCEPT !._propsBox = sync.box], ref)
            IN
            \E output \in IF oc.threw \/ MissingRender(inst) THEN {"element"}
                          ELSE outputs :
                LET rc     == CallRender(output)
                    failed == MissingRender(inst) \/ rc.threw
                IN
                /\ viewClass' = cls
                /\ classRef' = IF discard THEN cls ELSE classRef
                /\ hostProps' = props
                /\ hostRef' = ref
                /\ nextPropsId' = IF props.id = nextPropsId THEN nextPropsId + 1
                                  ELSE nextPropsId
                /\ renders' = renders + 1
                /\ swaps' = IF swap THEN swaps + 1 ELSE swaps
                /\ op' = "render"
                /\ wrote' = FALSE
                /\ createOut' = IF creating THEN cout ELSE "none"
                /\ renderLog' = RenderLogged(RenderSteps(creating, cout, inst), output)
                /\ onCreateCalls' = IF creating /\ cout /= "behaviorOnCreateThrows"
                                    THEN Invoked(onCreateCalls, vm) ELSE onCreateCalls
                /\ phaseLog' =
                      LET dropped == IF discard THEN Entered(phaseLog, vmRef, "Discarded")
                                     ELSE phaseLog
                      IN IF creating /\ ~oc.threw /\ ~failed
                         THEN Entered(dropped, vm, "Created") ELSE dropped
                /\ trace' = <<>>
                /\ reports' = oc.reports \o rc.reports
                /\ diagnostics' = <<>>
                /\ IF oc.threw
                   THEN \* the exception leaves the component function before
                        \* vmRef.current is assigned
                        /\ escaped' = TRUE
                        /\ stage' = "errored"
                        /\ vmRef' = 0
                        /\ insts' = insts
                        /\ prevPropsRef' = prevPropsRef
                        /\ propsRead' = NoProps
                        /\ createRead' = IF cout = "viewOnCreateThrows"
                                         THEN BoxGet(created._propsBox) ELSE NoProps
                        /\ notified' = 0
                   ELSE \* a render pass that throws is never committed: the host
                        \* keeps neither its effects nor, at the first render, its refs
                        /\ escaped' = failed
                        /\ stage' = IF failed THEN "errored" ELSE "rendered"
                        /\ vmRef' = IF failed THEN 0 ELSE vm
                        /\ insts' = IF failed THEN insts
                                    ELSE IF creating THEN (vm :> synced) @@ insts
                                    ELSE [insts EXCEPT ![vm] = synced]
                        /\ prevPropsRef' = IF creating THEN props ELSE prevPropsRef
                        /\ propsRead' = BoxGet(synced._propsBox)
                        /\ createRead' = IF creating THEN BoxGet(created._propsBox)
                                         ELSE NoProps
                        /\ notified' = IF sync.woke THEN 1 ELSE 0
    /\ UNCHANGED <<layoutFx, passiveFx, gen, remounts>>
    /\ DeliverReports

\* a render pass of a component whose class has no members to classify and
\* whose output, when the class has a render method, is produced
Render ==
    /\ RenderPass(Shapes, {"element"})
    /\ UNCHANGED classifyVars
    /\ UNCHANGED modeVars
    /\ UNCHANGED collectVars
    /\ UNCHANGED pureVars

\* outcome choices for one run of a mount phase / of the unmount chain; an
\* invocation that does not happen has the one choice "void"
RECURSIVE Product(_)
Product(sets) ==
    IF Len(sets) = 0 THEN {<<>>}
    ELSE {<<o>> \o rest : o \in Head(sets), rest \in Product(Tail(sets))}

MountChoices(behaviors, phase) ==
    Product([i \in 1..Len(behaviors) |->
                IF phase \in behaviors[i].hooks THEN MountOutcomes ELSE {"void"}])

ViewMountChoices(hooks, phase) == IF phase \in hooks THEN MountOutcomes ELSE {"void"}

SlotChoices(slot) == IF slot.k = "fn" THEN CallOutcomes ELSE {"void"}

HookChoices(hooks, phase) == IF phase \in hooks THEN CallOutcomes ELSE {"void"}

\* whether `slot?.()` lets an exception out: a callable that throws, or a
\* Promise, which is not callable
Aborts(slot, out) == slot.k = "promise" \/ (slot.k = "fn" /\ out = "throw")

\* the choices one entry's unmount consumes: nothing is chosen for a step an
\* earlier exception keeps from running
EntryChoices(layoutSlot, slot, hooks) ==
    {o \in [lc : SlotChoices(layoutSlot), c : SlotChoices(slot),
            u : HookChoices(hooks, "onUnmount")] :
        /\ Aborts(layoutSlot, o.lc) => (o.c = "void" /\ o.u = "void")
        /\ Aborts(slot, o.c) => o.u = "void"}

NoChoice == [lc |-> "void", c |-> "void", u |-> "void"]

EntryAborts(behavior, o) ==
    Aborts(behavior.layoutCleanup, o.lc) \/ Aborts(behavior.cleanup, o.c)

RECURSIVE UnmountChoicesFrom(_, _)
UnmountChoicesFrom(behaviors, i) ==
    IF i > Len(behaviors) THEN {<<>>}
    ELSE UNION {
        IF EntryAborts(behaviors[i], o)
        THEN {<<o>> \o [j \in 1..(Len(behaviors) - i) |-> NoChoice]}
        ELSE {<<o>> \o rest : rest \in UnmountChoicesFrom(behaviors, i + 1)} :
        o \in EntryChoices(behaviors[i].layoutCleanup, behaviors[i].cleanup,
                           behaviors[i].hooks)}

\* choices for the whole mount-effect destroy: the view's steps, then the entries
DestroyChoices(fx, inst) ==
    UNION {
        IF Aborts(fx.cleanup, vo.c)
        THEN {[view |-> vo, entries |-> [j \in 1..Len(inst.behaviors) |-> NoChoice]]}
        ELSE {[view |-> vo, entries |-> e] : e \in UnmountChoicesFrom(inst.behaviors, 1)} :
        vo \in EntryChoices(NoCleanup, fx.cleanup, inst.hooks)}

\* ------------------------------------------------- layout-effect commit
\* The host's pre-paint commit of the latest render, or the re-creation of the
\* layout effects after they were torn down on a live instance:
\*   1. the deferred props commit effect (no dependency list: runs every commit),
\*   2. create of the layout-mount effect when [vm] changed or nothing is mounted.
\* The layout-mount effect of a replaced instance is destroyed before.
RunLayoutEffects ==
    /\ stage \in {"rendered", "remountP"}
    /\ layoutFx.vm \in {0, vmRef}
    /\ LET inst     == insts[vmRef]
           create   == layoutFx.vm /= vmRef
           commit   == PropsCommitEffect(prevPropsRef, hostProps, inst._propsBox)
           g        == IF create THEN gen + 1 ELSE gen
       IN
       \E outs \in IF create THEN MountChoices(inst.behaviors, "onLayoutMount") ELSE {<<>>} :
       \E vout \in IF create THEN ViewMountChoices(inst.hooks, "onLayoutMount") ELSE {"void"} :
       \E m \in {IF create THEN LayoutMountEffect(inst, outs, vout, g)
                  ELSE [behaviors |-> inst.behaviors, cleanup |-> layoutFx.cleanup,
                        trace |-> <<>>, reports |-> <<>>, diagnostics |-> <<>>]} :
        /\ prevPropsRef' = commit.prev
        /\ notified' = IF commit.woke THEN 1 ELSE 0
        /\ wrote' = commit.wrote
        /\ op' = IF create THEN "layoutMount" ELSE "layoutCommit"
        /\ insts' = [insts EXCEPT ![vmRef] =
                        [inst EXCEPT !._propsBox = commit.box, !.behaviors = m.behaviors]]
        /\ layoutFx' = IF create THEN [vm |-> vmRef, cleanup |-> m.cleanup, gen |-> g]
                       ELSE layoutFx
        /\ gen' = g
        /\ phaseLog' = IF create THEN Entered(phaseLog, vmRef, "LayoutMounted") ELSE phaseLog
        /\ trace' = m.trace
        /\ reports' = m.reports
        /\ diagnostics' = PropsDriftWarning(commit.wrote, commit.woke) \o m.diagnostics
    /\ escaped' = FALSE
    /\ stage' = "layoutDone"
    /\ UNCHANGED <<viewClass, classRef, vmRef, passiveFx, hostProps, hostRef, nextPropsId,
                   propsRead, createRead, createOut, renderLog, onCreateCalls, renders, remounts, swaps>>
    /\ UNCHANGED classifyVars
    /\ UNCHANGED modeVars
    /\ UNCHANGED collectVars
    /\ UNCHANGED pureVars
    /\ DeliverReports

\* ------------------------------------------------ passive-effect commit
\* The host's post-paint flush: create of the mount effect when [vm] changed
\* or nothing is mounted. The mount effect of a replaced instance is destroyed
\* before.
RunPassiveEffects ==
    /\ stage = "layoutDone"
    /\ passiveFx.vm \in {0, vmRef}
    /\ LET inst   == insts[vmRef]
           create == passiveFx.vm /= vmRef
       IN
       \E outs \in IF create THEN MountChoices(inst.behaviors, "onMount") ELSE {<<>>} :
       \E vout \in IF create THEN ViewMountChoices(inst.hooks, "onMount") ELSE {"void"} :
       \E m \in {IF create THEN MountEffect(inst, outs, vout, gen)
                  ELSE [behaviors |-> inst.behaviors, cleanup |-> passiveFx.cleanup,
                        trace |-> <<>>, reports |-> <<>>, diagnostics |-> <<>>]} :
        /\ insts' = [insts EXCEPT ![vmRef] = [inst EXCEPT !.behaviors = m.behaviors]]
        /\ passiveFx' = IF create THEN [vm |-> vmRef, cleanup |-> m.cleanup, gen |-> gen]
                        ELSE passiveFx
        /\ trace' = m.trace
        /\ reports' = m.reports
        /\ diagnostics' = m.diagnostics
        /\ op' = IF create THEN "mount" ELSE "passiveFlush"
        /\ phaseLog' = IF create THEN Entered(phaseLog, vmRef, "Mounted") ELSE phaseLog
    /\ escaped' = FALSE
    /\ stage' = "idle"
    /\ notified' = 0
    /\ UNCHANGED <<viewClass, classRef, vmRef, prevPropsRef, layoutFx, hostProps, hostRef,
                   nextPropsId, propsRead, createRead, wrote, createOut, renderLog, onCreateCalls, gen, renders,
                   remounts, swaps>>
    /\ UNCHANGED classifyVars
    /\ UNCHANGED modeVars
    /\ UNCHANGED collectVars
    /\ UNCHANGED pureVars
    /\ DeliverReports

\* ------------------------------------------------------------- teardown
\* The host runs the layout-mount effect's destroy function: at unmount of the
\* occurrence, before re-running the effects on the same instance (remount),
\* or in the commit of a render that replaced the instance (replaced).
DestroyLayoutEffects ==
    /\ layoutFx.vm /= 0
    /\ \E kind \in {"unmount", "remount", "replaced"} :
       \E out \in SlotChoices(layoutFx.cleanup) :
       \E d \in {LayoutMountDestroy(layoutFx, out)} :
        /\ kind = "unmount" => stage \in {"idle", "errored"}
        /\ kind = "remount" => /\ stage = "idle"
                               /\ remounts + swaps < MaxReruns
                               /\ Small(ShapeOf(insts[layoutFx.vm]))
        /\ kind = "replaced" => (stage = "rendered" /\ layoutFx.vm /= vmRef)
        /\ stage' = CASE kind = "unmount" -> "unmountL"
                      [] kind = "remount" -> "remountL"
                      [] OTHER -> stage
        /\ remounts' = IF kind = "remount" THEN remounts + 1 ELSE remounts
        /\ trace' = d.trace
        /\ reports' = d.reports
        /\ diagnostics' = <<>>
        /\ escaped' = d.threw
    /\ layoutFx' = NoFx
    /\ op' = "destroyLayout"
    /\ notified' = 0
    /\ UNCHANGED <<viewClass, classRef, vmRef, prevPropsRef, insts, passiveFx, hostProps,
                   hostRef, nextPropsId, propsRead, createRead, wrote, createOut, renderLog, onCreateCalls,
                   phaseLog, gen, renders, swaps>>
    /\ UNCHANGED classifyVars
    /\ UNCHANGED modeVars
    /\ UNCHANGED collectVars
    /\ UNCHANGED pureVars
    /\ DeliverReports

\* The host runs the mount effect's destroy function, the unmount chain: after
\* the layout effects were destroyed, or in the passive flush of a render that
\* replaced the instance.
DestroyPassiveEffects ==
    /\ passiveFx.vm /= 0
    /\ \/ stage \in {"unmountL", "remountL"}
       \/ stage = "layoutDone" /\ passiveFx.vm /= vmRef
    /\ LET inst == insts[passiveFx.vm]
       IN
       \E dc \in DestroyChoices(passiveFx, inst) :
       \E d \in {MountDestroy(passiveFx, inst, dc.view, dc.entries)} :
        /\ trace' = d.trace
        /\ reports' = d.reports
        /\ diagnostics' = <<>>
        /\ escaped' = d.threw
    /\ stage' = CASE stage = "unmountL" -> "unmounted"
                  [] stage = "remountL" -> "remountP"
                  [] OTHER -> stage
    /\ passiveFx' = NoFx
    /\ phaseLog' = Entered(phaseLog, passiveFx.vm, "Unmounted")
    /\ insts' = Live(insts, {vmRef, layoutFx.vm})
    /\ op' = "destroyPassive"
    /\ notified' = 0
    /\ UNCHANGED <<viewClass, classRef, vmRef, prevPropsRef, layoutFx, hostProps,
                   hostRef, nextPropsId, propsRead, createRead, wrote, createOut, renderLog, onCreateCalls, gen,
                   renders, remounts, swaps>>
    /\ UNCHANGED classifyVars
    /\ UNCHANGED modeVars
    /\ UNCHANGED collectVars
    /\ UNCHANGED pureVars
    /\ DeliverReports

Next ==
    \/ Render
    \/ RunLayoutEffects
    \/ RunPassiveEffects
    \/ DestroyLayoutEffects
    \/ DestroyPassiveEffects

Spec == Init /\ [][Next]_vars

\* ------------------------------------------- classification of instances
\* A class is fixed, then instances of it are constructed with some value in
\* its field and classified as createView classifies a new instance.
lifecycleVars ==
    <<stage, viewClass, classRef, vmRef, prevPropsRef, insts, layoutFx, passiveFx,
      hostProps, hostRef, nextPropsId, propsRead, createRead, notified, wrote, createOut,
      renderLog, onCreateCalls, phaseLog, op, trace, reports, diagnostics, escaped, gen,
      renders, remounts, swaps>>

ClassifyInit ==
    /\ LifecycleInit
    /\ klass \in Classes
    /\ made = 0
    /\ lastBehavior = NoBehaviorInst
    /\ firstInst = NoInst
    /\ lastInst = NoInst
    /\ NoConfiguration
    /\ NoCollection
    /\ NoCalls

Construct ==
    /\ made < MaxInstances
    /\ \E value \in IF HasField(klass) THEN ValueKinds ELSE {"plain"} :
        LET instance == Instantiate(klass, value)
            rec == [value |-> value, instance |-> instance,
                    ann |-> Classify(instance, klass.declared, klass.autoObservable)]
        IN /\ lastInst' = rec
           /\ firstInst' = IF made = 0 THEN rec ELSE firstInst
    /\ made' = made + 1
    /\ UNCHANGED <<klass, lastBehavior>>
    /\ UNCHANGED lifecycleVars
    /\ UNCHANGED configVars
    /\ UNCHANGED modeVars
    /\ UNCHANGED collectVars
    /\ UNCHANGED pureVars

\* new BehaviorClass(...) for a behavior class with the members of klass
ConstructBehavior ==
    /\ lastBehavior.made < MaxInstances
    /\ \E value \in IF HasField(klass) THEN ValueKinds ELSE {"plain"} :
        LET instance == InstantiateBehavior(klass, value)
        IN lastBehavior' = [made |-> lastBehavior.made + 1,
                            value |-> value,
                            instance |-> instance,
                            ann |-> ClassifyBehavior(instance, klass.autoObservable),
                            entries |-> EmbeddedEntries(instance)]
    /\ UNCHANGED <<klass, made, firstInst, lastInst>>
    /\ UNCHANGED lifecycleVars
    /\ UNCHANGED configVars
    /\ UNCHANGED modeVars
    /\ UNCHANGED collectVars
    /\ UNCHANGED pureVars

ClassifyNext ==
    \/ Construct
    \/ ConstructBehavior

ClassifySpec == ClassifyInit /\ [][ClassifyNext]_vars

\* ------------------------------------------------------- reconfiguration
\* The application calls configure() at any time between the host's phases,
\* around the life of one instance of a view with at most one behavior whose
\* hooks return nothing or throw.
ConfigRenders == 1   \* render passes of the reconfigured occurrence

ConfigScope ==
    /\ renders <= ConfigRenders
    /\ remounts = 0
    /\ swaps = 0
    /\ hostRef = 0
    /\ \A v \in DOMAIN insts : Len(insts[v].behaviors) <= 1 /\ insts[v].render
    /\ \A key \in DOMAIN hostProps.c : key = "x" /\ hostProps.c[key] = "a"
    /\ \A p \in 1..Len(trace) : trace[p].out \in CallOutcomes

\* mutant: configure() also strips the annotations of the classified instance
ConfigureReclassifies ==
    /\ Len(configLog) < MaxConfigures
    /\ \E config \in ConfigArgs :
        /\ globalConfig' = ObjectAssign(globalConfig, config)
        /\ configLog' = Append(configLog, config)
    /\ lastInst' = [lastInst EXCEPT !.ann = <<>>]
    /\ UNCHANGED <<delivered, configAtCreate, klass, made, firstInst, lastBehavior>>
    /\ UNCHANGED lifecycleVars
    /\ UNCHANGED modeVars
    /\ UNCHANGED collectVars
    /\ UNCHANGED pureVars

\* configure(config)
Configure ==
    /\ Len(configLog) < MaxConfigures
    /\ \E config \in ConfigArgs :
        /\ globalConfig' = ObjectAssign(globalConfig, config)
        /\ configLog' = Append(configLog, config)
    /\ UNCHANGED <<delivered, configAtCreate>>
    /\ UNCHANGED lifecycleVars
    /\ UNCHANGED classifyVars
    /\ UNCHANGED modeVars
    /\ UNCHANGED collectVars
    /\ UNCHANGED pureVars

\* a render pass whose output may throw
RenderOrThrow ==
    /\ RenderPass(Shapes, RenderOutputs)
    /\ UNCHANGED classifyVars
    /\ UNCHANGED modeVars
    /\ UNCHANGED collectVars
    /\ UNCHANGED pureVars

ConfigNext ==
    \/ Configure
    \/ RenderOrThrow /\ ConfigScope'
    \/ RunLayoutEffects /\ ConfigScope'
    \/ RunPassiveEffects /\ ConfigScope'
    \/ DestroyLayoutEffects /\ ConfigScope'
    \/ DestroyPassiveEffects /\ ConfigScope'

ConfigSpec == Init /\ [][ConfigNext]_vars

\* ------------------------------------------------- classification modes
\* The application builds the factories, calls configure({ autoObservable })
\* at any time, and renders one occurrence of the view, whose instance is
\* classified under the flag the factory holds and whose behaviors are
\* classified under the flag their constructors read. The view and its
\* behavior define every hook and no hook fails.
ModeClasses ==
    {k \in Classes : /\ ~k.declared.has
                     /\ k.render
                     /\ ~k.toString
                     /\ k.autoObservable
                     /\ k.count \in {"field", "method"}}

ModeValues == {"plain", "viewRef"}

ModeShapes ==
    {shape \in Shapes : /\ Len(shape.fields) <= 1
                        /\ shape.render
                        /\ shape.hooks = Hooks
                        /\ \A i \in 1..Len(shape.fields) : shape.fields[i] = Hooks}

ModeInit ==
    /\ LifecycleInit
    /\ NoConfiguration
    /\ NoCollection
    /\ NoCalls
    /\ klass \in ModeClasses
    /\ made = 0
    /\ lastBehavior = NoBehaviorInst
    /\ firstInst = NoInst
    /\ lastInst = NoInst

ModeScope ==
    /\ ConfigScope
    /\ \A p \in 1..Len(configLog) : DOMAIN configLog[p] \subseteq {"autoObservable"}
    /\ \A p \in 1..Len(trace) : trace[p].out = "void"
    /\ createOut \in {"none", "ok"}

\* createView(ViewClass, options)
CreateViewFactory ==
    /\ ~viewFactory.built
    /\ \E options \in FactoryOptions :
        viewFactory' = [built |-> TRUE,
                        options |-> options,
                        autoObservable |-> ViewAutoObservable(options, globalConfig),
                        after |-> Len(configLog)]
    /\ UNCHANGED <<behaviorFactory, modes>>
    /\ UNCHANGED lifecycleVars
    /\ UNCHANGED classifyVars
    /\ UNCHANGED configVars
    /\ UNCHANGED collectVars
    /\ UNCHANGED pureVars

\* createBehavior(Def, options)
CreateBehaviorFactory ==
    /\ ~behaviorFactory.built
    /\ \E options \in FactoryOptions :
        behaviorFactory' = [built |-> TRUE, options |-> options, after |-> Len(configLog)]
    /\ UNCHANGED <<viewFactory, modes>>
    /\ UNCHANGED lifecycleVars
    /\ UNCHANGED classifyVars
    /\ UNCHANGED configVars
    /\ UNCHANGED collectVars
    /\ UNCHANGED pureVars

\* the classification inside a render pass that creates an instance: the
\* behaviors are classified in their constructors during new ViewClass(), the
\* view after _collectBehaviors
ClassifyCreated ==
    LET reached(step) == \E p \in 1..Len(renderLog') : renderLog'[p] = step
    IN /\ IF reached("classify")
          THEN /\ \E value \in IF HasField(klass) THEN ModeValues ELSE {"plain"} :
                    LET instance == Instantiate(klass, value)
                        rec == [value |-> value, instance |-> instance,
                                ann |-> Classify(instance, klass.declared,
                                                 viewFactory.autoObservable)]
                    IN /\ lastInst' = rec
                       /\ firstInst' = IF made = 0 THEN rec ELSE firstInst
               /\ made' = made + 1
               /\ modes' = [classified |-> TRUE,
                            view |-> viewFactory.autoObservable,
                            embedded |-> reached("behaviorOnCreate"),
                            behavior |-> BehaviorAutoObservable(behaviorFactory.options,
                                                                globalConfig),
                            after |-> Len(configLog)]
          ELSE UNCHANGED <<made, firstInst, lastInst, modes>>
       /\ UNCHANGED <<klass, lastBehavior, viewFactory, behaviorFactory>>
       /\ UNCHANGED collectVars
       /\ UNCHANGED pureVars

\* a render pass of a component built by createView
ClassifiedRender ==
    /\ viewFactory.built
    /\ behaviorFactory.built
    /\ RenderPass(ModeShapes, {"element"})
    /\ ClassifyCreated

ModeNext ==
    \/ CreateViewFactory
    \/ CreateBehaviorFactory
    \/ Configure /\ ModeScope'
    \/ ClassifiedRender /\ ModeScope'
    \/ RunLayoutEffects /\ ModeScope'
    \/ RunPassiveEffects /\ ModeScope'
    \/ DestroyLayoutEffects /\ ModeScope'
    \/ DestroyPassiveEffects /\ ModeScope'

ModeSpec == ModeInit /\ [][ModeNext]_vars

\* ------------------------------------------------ collecting behaviors
\* One view instance: new ViewClass() leaves its own properties, then
\* _collectBehaviors runs, then the instance is made observable, then onCreate
\* and later code may write its properties.
MaxFields == 3    \* own properties the class declares
MaxAssigns == 2   \* property writes after creation

FieldNames == {"a", "_b", "c", "_d"}

\* key.startsWith('_')
StartsWithUnderscore(key) == key \in {"_b", "_d"}

FieldValues == {"behavior", "plain"}

\* the own properties new ViewClass() can leave, in declaration order
OwnLayouts ==
    UNION {{props \in [1..n -> [key : FieldNames, value : FieldValues]] :
                \A p, q \in 1..n : props[p].key = props[q].key => p = q} :
           n \in 0..MaxFields}

\* mutant: internal properties are scanned too
CollectEveryKey(props) ==
    SelectSeq([p \in 1..Len(props) |-> [key |-> props[p].key, instance |-> props[p].value]],
              LAMBDA e : isBehavior(e.instance))

\* View._collectBehaviors: for (const key of Object.keys(this)) ... push
RECURSIVE CollectOwnBehaviors(_)
CollectOwnBehaviors(props) ==
    IF props = <<>> THEN <<>>
    ELSE LET key   == Head(props).key
             value == Head(props).value
             rest  == CollectOwnBehaviors(Tail(props))
         IN IF StartsWithUnderscore(key) THEN rest
            ELSE IF isBehavior(value) THEN <<[key |-> key, instance |-> value]>> \o rest
            ELSE rest

\* this[key] = value, or delete this[key]: an existing key keeps its place, a
\* new key goes last
PutProperty(props, key, value) ==
    LET at == {p \in 1..Len(props) : props[p].key = key}
    IN IF value = "deleted"
       THEN SelectSeq(props, LAMBDA e : e.key /= key)
       ELSE IF at = {} THEN Append(props, [key |-> key, value |-> value])
       ELSE [p \in 1..Len(props) |-> IF p \in at THEN [key |-> key, value |-> value]
                                     ELSE props[p]]

CollectInit ==
    /\ LifecycleInit
    /\ NoClassification
    /\ NoConfiguration
    /\ ownProps \in OwnLayouts
    /\ ownAtCollect = <<>>
    /\ behaviors_ = <<>>
    /\ collectStage = "constructed"
    /\ assigns = 0
    /\ NoCalls

\* createView: instance._collectBehaviors()
CollectBehaviors ==
    /\ collectStage = "constructed"
    /\ behaviors_' = CollectOwnBehaviors(ownProps)
    /\ ownAtCollect' = ownProps
    /\ collectStage' = "collected"
    /\ UNCHANGED <<ownProps, assigns>>
    /\ UNCHANGED lifecycleVars
    /\ UNCHANGED classifyVars
    /\ UNCHANGED configVars
    /\ UNCHANGED modeVars
    /\ UNCHANGED pureVars

\* createView: makeObservable / makeViewObservable on the instance
WrapInstance ==
    /\ collectStage = "collected"
    /\ collectStage' = "wrapped"
    /\ UNCHANGED <<ownProps, ownAtCollect, behaviors_, assigns>>
    /\ UNCHANGED lifecycleVars
    /\ UNCHANGED classifyVars
    /\ UNCHANGED configVars
    /\ UNCHANGED modeVars
    /\ UNCHANGED pureVars

\* onCreate, a hook or a method writes or deletes a property of the instance
AssignProperty ==
    /\ collectStage = "wrapped"
    /\ assigns < MaxAssigns
    /\ \E key \in FieldNames : \E value \in FieldValues \cup {"deleted"} :
        ownProps' = PutProperty(ownProps, key, value)
    /\ assigns' = assigns + 1
    /\ UNCHANGED <<ownAtCollect, behaviors_, collectStage>>
    /\ UNCHANGED lifecycleVars
    /\ UNCHANGED classifyVars
    /\ UNCHANGED configVars
    /\ UNCHANGED modeVars
    /\ UNCHANGED pureVars

CollectNext ==
    \/ CollectBehaviors
    \/ WrapInstance
    \/ AssignProperty

CollectSpec == CollectInit /\ [][CollectNext]_vars

\* ------------------------------------------------------ shallow comparison
\* shallowEqual called on any two of the values a props slot can hold: null
\* (id 0) or an object, identified by id, with at most MaxKeys own keys
MaxKeys == 2

PropsObjects ==
    {NoProps} \cup {[id |-> i, c |-> c] : i \in {1, 2},
                                         c \in {k \in Contents : Cardinality(DOMAIN k) <= MaxKeys}}

\* shallowEqual(a, b) and shallowEqual(b, a)
CompareProps ==
    /\ \E a \in PropsObjects : \E b \in PropsObjects :
        /\ a.id = b.id => a = b
        /\ compared' = [done |-> TRUE, a |-> a, b |-> b,
                        out |-> shallowEqual(a, b), back |-> shallowEqual(b, a)]
    /\ UNCHANGED <<construction, probe, shared>>
    /\ UNCHANGED lifecycleVars
    /\ UNCHANGED classifyVars
    /\ UNCHANGED configVars
    /\ UNCHANGED modeVars
    /\ UNCHANGED collectVars

EqualNext == CompareProps

EqualSpec == Init /\ [][EqualNext]_vars

\* ------------------------------------------------------ behavior factories
\* The factory createBehavior(Def) returns is called, with or without `new`,
\* and isBehavior is asked about any value.
MaxArgs == 2

\* argument lists a factory is called with
FactoryArgs == UNION {[1..n -> {"p", "q"}] : n \in 0..MaxArgs}

\* the classes of the constructor chain: BehaviorClass extends Def extends
\* Behavior; Derived is a class written as `extends` of the factory
SuperClass(c) ==
    CASE c = "Derived"       -> "BehaviorClass"
      [] c = "BehaviorClass" -> "Def"
      [] c = "Def"           -> "Behavior"
      [] c = "Behavior"      -> "Object"
      [] OTHER               -> "none"

\* mutant: every class carries the marker
MarkerOnEveryClass(c) == c /= "none"

\* `(value.constructor as any)?.[BEHAVIOR_MARKER] === true`: the static field
\* of BehaviorClass, found on a class through its chain of superclasses
RECURSIVE HasBehaviorMarker(_)
HasBehaviorMarker(c) ==
    IF c = "none" THEN FALSE
    ELSE IF c = "BehaviorClass" THEN TRUE
    ELSE HasBehaviorMarker(SuperClass(c))

\* isBehavior(value), on a value described by type and constructor
isBehaviorValue(value) ==
    IF value.type /= "object" THEN FALSE
    ELSE HasBehaviorMarker(value.ctor)

\* the values isBehavior is asked about
JsValues ==
    {NullValue,
     JsValue("number", "Number", "literal"),
     JsValue("function", "Function", "theFactory"),
     JsValue("object", "Object", "literal"),
     JsValue("object", "none", "Object.create(null)"),
     JsValue("object", "Def", "new Def()"),
     JsValue("object", "BehaviorClass", "factory"),
     JsValue("object", "BehaviorClass", "Object.create(instance)"),
     JsValue("object", "BehaviorClass", "factory.prototype"),
     JsValue("object", "Derived", "new Derived()")}

\* the constructor of BehaviorClass: super(...args), this.onCreate(...args)
\* when it is a function, then makeBehaviorObservable / makeObservable; a
\* throw of onCreate leaves the constructor
BehaviorConstructor(args, hasOnCreate, out) ==
    <<[step |-> "constructor", args |-> args]>>
        \o (IF hasOnCreate THEN <<[step |-> "onCreate", args |-> args]>> ELSE <<>>)
        \o (IF hasOnCreate /\ out = "throws" THEN <<>>
            ELSE <<[step |-> "wrap", args |-> <<>>]>>)

\* factory(...args): the Proxy's apply trap, `new BehaviorClass(...args)`;
\* new factory(...args): the Proxy has no construct trap, the class is
\* constructed directly
CallFactory ==
    /\ \E how \in {"call", "new"} : \E args \in FactoryArgs :
       \E hasOnCreate \in BOOLEAN :
       \E out \in IF hasOnCreate THEN {"ok", "throws"} ELSE {"ok"} :
        construction' = [done |-> TRUE, how |-> how, args |-> args,
                         log |-> BehaviorConstructor(args, hasOnCreate, out),
                         value |-> IF out = "ok"
                                   THEN JsValue("object", "BehaviorClass", "factory")
                                   ELSE NullValue]
    /\ UNCHANGED <<compared, probe, shared>>
    /\ UNCHANGED lifecycleVars
    /\ UNCHANGED classifyVars
    /\ UNCHANGED configVars
    /\ UNCHANGED modeVars
    /\ UNCHANGED collectVars

\* isBehavior(value) for the instance the factory returned or any other value
ProbeValue ==
    /\ \E value \in JsValues \cup {construction.value} :
        probe' = [done |-> TRUE, value |-> value, out |-> isBehaviorValue(value)]
    /\ UNCHANGED <<compared, construction, shared>>
    /\ UNCHANGED lifecycleVars
    /\ UNCHANGED classifyVars
    /\ UNCHANGED configVars
    /\ UNCHANGED modeVars
    /\ UNCHANGED collectVars

FactoryNext ==
    \/ CallFactory
    \/ ProbeValue

FactorySpec == Init /\ [][FactoryNext]_vars

\* ------------------------------------------------- shared behavior instances
\* A view whose own properties hold behavior instances with an identity (1,
\* 2; 0 is a value that is no behavior), so that two properties can hold the
\* same instance; every behavior defines every hook and no hook throws.
Instances == {1, 2}

HeldLayouts ==
    UNION {{props \in [1..n -> [key : FieldNames, instance : {0} \cup Instances]] :
                \A p, q \in 1..n : props[p].key = props[q].key => p = q} :
           n \in 0..MaxFields}

\* View._collectBehaviors on properties with identified values: one entry
\* per property, `this._behaviors.push({ instance: value })`
RECURSIVE CollectInstances(_)
CollectInstances(held) ==
    IF held = <<>> THEN <<>>
    ELSE LET n    == Len(held)
             rest == CollectInstances(SubSeq(held, 1, n - 1))
             last == held[n]
         IN IF StartsWithUnderscore(last.key) \/ last.instance = 0 THEN rest
            ELSE Append(rest, last.instance)

\* _layoutMountBehaviors / _mountBehaviors / _unmountBehaviors: the hook of
\* each entry's instance, in list order
HookCalls(entries, hook) == [p \in 1..Len(entries) |-> [hook |-> hook, instance |-> entries[p]]]

SharedInit ==
    /\ LifecycleInit
    /\ NoClassification
    /\ NoConfiguration
    /\ NoCollection
    /\ NoComparison
    /\ NoConstruction
    /\ shared \in {[held |-> h, entries |-> <<>>, phase |-> "constructed", calls |-> <<>>] :
                      h \in HeldLayouts}

\* the view of `shared` enters a phase with these entries and hook calls
SharedStep(to, entries, calls) ==
    /\ shared' = [shared EXCEPT !.phase = to, !.entries = entries, !.calls = calls]
    /\ UNCHANGED <<compared, construction, probe>>
    /\ UNCHANGED lifecycleVars
    /\ UNCHANGED classifyVars
    /\ UNCHANGED configVars
    /\ UNCHANGED modeVars
    /\ UNCHANGED collectVars

\* createView: instance._collectBehaviors()
SharedCollect ==
    /\ shared.phase = "constructed"
    /\ SharedStep("created", CollectInstances(shared.held), <<>>)

\* the layout effect: vm._layoutMountBehaviors()
SharedLayoutMount ==
    /\ shared.phase = "created"
    /\ SharedStep("layoutMounted", shared.entries, HookCalls(shared.entries, "onLayoutMount"))

\* the mount effect: vm._mountBehaviors()
SharedMount ==
    /\ shared.phase = "layoutMounted"
    /\ SharedStep("mounted", shared.entries, HookCalls(shared.entries, "onMount"))

\* the mount effect's teardown: vm._unmountBehaviors()
SharedUnmount ==
    /\ shared.phase = "mounted"
    /\ SharedStep("unmounted", shared.entries, HookCalls(shared.entries, "onUnmount"))

SharedNext ==
    \/ SharedCollect
    \/ SharedLayoutMount
    \/ SharedMount
    \/ SharedUnmount

SharedSpec == SharedInit /\ [][SharedNext]_vars

\* ======================================================================
\* Properties
\* ======================================================================

\* the instance whose effects the handler that ran last belongs to
Current == insts[vmRef]

Steps(tr) == {[who |-> tr[p].who, step |-> tr[p].step] : p \in 1..Len(tr)}

Threw(tr, who, step) ==
    \E p \in 1..Len(tr) : tr[p].who = who /\ tr[p].step = step /\ tr[p].out = "throw"

CountReports(rs, phase, who, ofBehavior) ==
    Cardinality({p \in 1..Len(rs) : rs[p] = ErrorContext(phase, who, ofBehavior)})

MountPhaseOf == [layoutMount |-> "onLayoutMount", mount |-> "onMount"]

InMountPhase == op \in {"layoutMount", "mount"}

SlotOf(entry, phase) ==
    IF phase = "onLayoutMount" THEN entry.layoutCleanup ELSE entry.cleanup

\* the unmount chain of the live instance has just run (teardown or remount)
AfterUnmountChain ==
    /\ op = "destroyPassive"
    /\ stage \in {"unmounted", "remountP"}
    /\ vmRef \in DOMAIN insts

\* ---------------------------------------------------------------- C1
\* C1: for any subset of behaviors whose hook of a mount phase throws, every
\* other behavior's hook and the view's hook of that phase are still invoked,
\* exactly one report with isBehavior = TRUE is emitted per throwing behavior,
\* and the throwing invocation captures no cleanup (the entry's slot holds
\* nothing produced by this run of the phase).
C1_FaultIsolation ==
    InMountPhase =>
        LET phase == MountPhaseOf[op]
        IN /\ \A i \in 1..Len(Current.behaviors) :
                /\ phase \in Current.behaviors[i].hooks
                      => [who |-> i, step |-> phase] \in Steps(trace)
                /\ CountReports(reports, phase, i, TRUE)
                      = (IF Threw(trace, i, phase) THEN 1 ELSE 0)
                /\ Threw(trace, i, phase) =>
                      \A p \in 1..Len(trace) :
                          SlotOf(Current.behaviors[i], phase).gen /= trace[p].at
           /\ phase \in Current.hooks => [who |-> 0, step |-> phase] \in Steps(trace)

C1_Witness ==
    /\ op = "mount"
    /\ Len(Current.behaviors) = 2
    /\ Threw(trace, 1, "onMount")
    /\ [who |-> 2, step |-> "onMount"] \in Steps(trace)
    /\ [who |-> 0, step |-> "onMount"] \in Steps(trace)
    /\ Len(reports) = 1

\* ---------------------------------------------------------------- C2
\* position of a mount-phase invocation in the order the claim fixes:
\* behaviors in registration order, then the view
MountRank(e, n) == IF e.who = 0 THEN n + 1 ELSE e.who

\* C2: in the layout-mount phase and in the mount phase every registered
\* behavior's hook is invoked, in registration order, before the view's own
\* hook of the same phase.
C2_BehaviorsBeforeView ==
    InMountPhase =>
        LET n == Len(Current.behaviors)
        IN /\ \A p, q \in 1..Len(trace) :
                p < q => MountRank(trace[p], n) < MountRank(trace[q], n)
           /\ \A p \in 1..Len(trace) : trace[p].step = MountPhaseOf[op]
           /\ \A i \in 1..n : MountPhaseOf[op] \in Current.behaviors[i].hooks
                                 => [who |-> i, step |-> MountPhaseOf[op]] \in Steps(trace)

C2_Witness ==
    /\ op = "mount"
    /\ Len(Current.behaviors) = 2
    /\ Len(trace) = 3
    /\ trace[3].who = 0

\* ---------------------------------------------------------------- C3
StepRank == [layoutCleanup |-> 1, cleanup |-> 2, onUnmount |-> 3]

\* position of an unmount step in the order the claim fixes: the view's mount
\* cleanup, the view's onUnmount, then per behavior its layout cleanup, its
\* mount cleanup and its onUnmount
UnmountRank(e) == 3 * e.who + StepRank[e.step]

\* C3: the steps of the unmount chain run in the order: view's mount cleanup,
\* view's onUnmount, then for each behavior in registration order its layout
\* cleanup, its mount cleanup and its onUnmount; no behavior step runs before
\* the view's onUnmount.
C3_UnmountOrder ==
    op = "destroyPassive" =>
        /\ \A p, q \in 1..Len(trace) :
              p < q => UnmountRank(trace[p]) < UnmountRank(trace[q])
        /\ \A p \in 1..Len(trace) :
              trace[p].who = 0 => trace[p].step \in {"cleanup", "onUnmount"}

C3_Witness ==
    /\ op = "destroyPassive"
    /\ Len(trace) = 8
    /\ ~escaped

\* ---------------------------------------------------------------- C4
NoStepThrew == \A p \in 1..Len(trace) : trace[p].out = "void"

\* C4: whatever mount-phase hooks threw earlier, the unmount chain invokes the
\* view's onUnmount and every behavior's onUnmount, invokes the cleanups that
\* the preceding mount captured, and invokes no cleanup for a hook that threw
\* (stated for an unmount chain in which no step throws).
C4_UnmountCompleteness ==
    (AfterUnmountChain /\ NoStepThrew) =>
        /\ "onUnmount" \in Current.hooks
              => [who |-> 0, step |-> "onUnmount"] \in Steps(trace)
        /\ \A i \in 1..Len(Current.behaviors) :
              "onUnmount" \in Current.behaviors[i].hooks
                  => [who |-> i, step |-> "onUnmount"] \in Steps(trace)
        /\ \A p \in 1..Len(trace) :
              trace[p].step \in {"cleanup", "layoutCleanup"}
                  => trace[p].gen = trace[p].at

\* ---------------------------------------------------------------- C5
\* C5: a read of props during onCreate or while producing render output
\* returns the props object the host supplied to that render, whether or not
\* the deferred commit for it has run.
C5_PropsReadCurrent ==
    op = "render" =>
        /\ createOut \in {"ok", "viewOnCreateThrows"} => createRead = hostProps
        /\ ~escaped => propsRead = hostProps

C5_Witness ==
    /\ op = "render"
    /\ createOut = "none"
    /\ hostProps.id /= prevPropsRef.id
    /\ ~shallowEqual(prevPropsRef, hostProps)
    /\ propsRead = hostProps

\* ---------------------------------------------------------------- C6
\* C6: the silent write of a render pass wakes no dependent of props.
C6_SilentWrite == op = "render" => notified = 0

C6_Witness ==
    /\ op = "render"
    /\ createOut = "none"
    /\ ~shallowEqual(prevPropsRef, hostProps)
    /\ BoxGet(Current._propsBox) = hostProps

\* ---------------------------------------------------------------- C7
\* C7: when the deferred commit finds the props of the render not
\* shallow-equal to the committed snapshot, a dependent observing props is
\* notified in that commit.
C7_NotifiedAtCommit ==
    (op \in {"layoutCommit", "layoutMount"} /\ wrote) => notified = 1

\* ---------------------------------------------------------------- C8
\* C8: the shadow value is the latest props object the host supplied; the
\* committed snapshot is an object the host supplied at that render or an
\* earlier one; after a deferred commit that found a difference the committed
\* snapshot equals the shadow value.
C8_ShadowAndCommitted ==
    /\ vmRef /= 0 =>
          /\ BoxGet(Current._propsBox) = hostProps
          /\ prevPropsRef.id >= 1
          /\ prevPropsRef.id <= hostProps.id
    /\ (op \in {"layoutCommit", "layoutMount"} /\ wrote)
          => prevPropsRef = BoxGet(Current._propsBox)

C8_Witness ==
    /\ op = "layoutCommit"
    /\ wrote
    /\ prevPropsRef = hostProps
    /\ hostProps.id = 2

\* ---------------------------------------------------------------- C9
OnCreateThrew == op = "render" /\ createOut \in {"viewOnCreateThrows", "behaviorOnCreateThrows"}

\* C9 as claimed: an exception thrown by onCreate, of a view or of a behavior,
\* is caught, reported to the error sink and does not reach the host.
C9_OnCreateCaught == OnCreateThrew => (~escaped /\ Len(reports) = 1)

\* C9 as amended: an exception thrown by onCreate, of a view or of a behavior,
\* is not caught: it leaves the render pass and reaches the host, no report is
\* sent to the error sink and the instance is not kept.
C9_OnCreateEscapes == OnCreateThrew => (escaped /\ reports = <<>> /\ vmRef = 0)

C9_Witness == OnCreateThrew /\ createOut = "viewOnCreateThrows" /\ escaped

\* ---------------------------------------------------------------- C10
\* the steps the unmount chain of an instance owes: the view's onUnmount and,
\* per entry, the held layout cleanup, the held cleanup and onUnmount
OwedSteps(inst) ==
    (IF "onUnmount" \in inst.hooks THEN {[who |-> 0, step |-> "onUnmount"]} ELSE {})
    \cup {[who |-> i, step |-> "layoutCleanup"] :
            i \in {j \in 1..Len(inst.behaviors) : inst.behaviors[j].layoutCleanup.k /= "none"}}
    \cup {[who |-> i, step |-> "cleanup"] :
            i \in {j \in 1..Len(inst.behaviors) : inst.behaviors[j].cleanup.k /= "none"}}
    \cup {[who |-> i, step |-> "onUnmount"] :
            i \in {j \in 1..Len(inst.behaviors) : "onUnmount" \in inst.behaviors[j].hooks}}

\* C10: a throw from any step of the unmount chain keeps no later step of the
\* same entry or of a subsequent entry from running: every owed step runs.
C10_UnmountIsolation == AfterUnmountChain => OwedSteps(Current) \subseteq Steps(trace)

\* ---------------------------------------------------------------- C11
Logged(step) == \E p \in 1..Len(renderLog) : renderLog[p] = step

MissingRenderRaised == op = "render" /\ Logged("missingRender")

\* C11: when neither a render method nor a template is available, the first
\* render raises the missing-render error before any lifecycle hook of the
\* instance (onCreate of the view or of a behavior, or a mount-phase hook) has
\* run, and no mount-phase effect is set up afterwards.
C11_MissingRenderBeforeHooks ==
    MissingRenderRaised =>
        /\ escaped
        /\ ~Logged("onCreate")
        /\ ~Logged("behaviorOnCreate")
        /\ layoutFx = NoFx
        /\ passiveFx = NoFx

\* ---------------------------------------------------------------- C12
LogIndex(step) == CHOOSE p \in 1..Len(renderLog) : renderLog[p] = step

LoggedTimes(step) == Cardinality({p \in 1..Len(renderLog) : renderLog[p] = step})

\* C12: onCreate is invoked exactly once per view instance, within the render
\* pass that constructs it, after the behaviors are collected and the members
\* classified and before render output is produced; a render pass of an
\* existing instance does not invoke it.
C12_OnCreateOnce ==
    /\ \A v \in DOMAIN onCreateCalls : onCreateCalls[v] = 1
    /\ \A v \in DOMAIN insts : v \in DOMAIN onCreateCalls
    /\ op = "render" =>
          /\ LoggedTimes("onCreate") = (IF createOut \in {"ok", "viewOnCreateThrows"} THEN 1 ELSE 0)
          /\ Logged("onCreate") =>
                /\ Logged("collect") /\ LogIndex("collect") < LogIndex("onCreate")
                /\ Logged("classify") /\ LogIndex("classify") < LogIndex("onCreate")
          /\ Logged("output") =>
                (Logged("onCreate") => LogIndex("onCreate") < LogIndex("output"))

C12_Witness ==
    /\ op = "render"
    /\ renders = 2
    /\ createOut = "none"
    /\ Logged("output")
    /\ vmRef \in DOMAIN onCreateCalls
    /\ onCreateCalls[vmRef] = 1

\* ---------------------------------------------------------------- C13
\* the phases of an instance, without the hot-swap marker
PhasesOf(v) == SelectSeq(phaseLog[v], LAMBDA ph : ph /= "Discarded")

PhaseChain == <<"Created", "LayoutMounted", "Mounted", "Unmounted">>

\* C13: an instance's phase only advances along Created -> LayoutMounted ->
\* Mounted -> Unmounted and Unmounted is terminal: the phases an instance went
\* through are an initial part of that chain.
C13_PhaseOrder ==
    \A v \in DOMAIN phaseLog :
        /\ Len(PhasesOf(v)) <= Len(PhaseChain)
        /\ PhasesOf(v) = SubSeq(PhaseChain, 1, Len(PhasesOf(v)))

\* ---------------------------------------------------------------- C14
\* C14: after a render pass under a changed class identity the held instance
\* is of the new class and is a freshly constructed one (empty cleanup slots,
\* phase Created, its own single onCreate call), and an instance dropped by a
\* hot-swap enters no mount phase afterwards: only its unmount follows.
C14_HotSwapFresh ==
    /\ (op = "render" /\ vmRef /= 0) =>
          /\ Current.cls = viewClass
          /\ classRef = viewClass
    /\ (op = "render" /\ vmRef /= 0 /\ createOut = "ok") =>
          /\ Current = NewInstance(viewClass, ShapeOf(Current), hostProps, hostRef)
          /\ phaseLog[vmRef] = <<"Created">>
          /\ onCreateCalls[vmRef] = 1
    /\ \A v \in DOMAIN phaseLog :
          \A p, q \in 1..Len(phaseLog[v]) :
              (phaseLog[v][p] = "Discarded" /\ p < q) => phaseLog[v][q] = "Unmounted"

C14_Witness ==
    /\ op = "destroyPassive"
    /\ swaps = 1
    /\ vmRef = 2
    /\ 1 \in DOMAIN phaseLog
    /\ phaseLog[1] = <<"Created", "LayoutMounted", "Mounted", "Discarded", "Unmounted">>
    /\ phaseLog[2] = <<"Created", "LayoutMounted">>

\* ---------------------------------------------------------------- C15
\* what shape inference would assign to the members of an instance
Inferred(instance) == AnnotationMap(makeViewObservable(instance, TRUE))

\* C15: a member that has a declared classification ends up with the declared
\* one, also when the inferencer would assign it another; later steps never
\* write a declared entry again.
C15_DeclaredPrecedence ==
    (made > 0 /\ klass.declared.has) =>
        \A p \in 1..Len(klass.declared.entries) :
            LET d == klass.declared.entries[p]
            IN /\ d.key \in Written(lastInst.ann)
               /\ AnnotationMap(lastInst.ann)[d.key] = d.as
               /\ WrittenTimes(lastInst.ann, d.key) = 1

C15_Witness ==
    /\ made > 0
    /\ klass.count = "method"
    /\ klass.render
    /\ klass.declared = [has |-> TRUE, entries |-> <<[key |-> "count", as |-> "action"]>>]
    /\ Inferred(lastInst.instance)["count"] = "action.bound"
    /\ AnnotationMap(lastInst.ann)["count"] = "action"

\* ---------------------------------------------------------------- C16
\* shape inference classified the latest instance
InferenceRan == made > 0 /\ ~klass.declared.has /\ klass.autoObservable

\* the base class's own members among the modelled names
ReservedNames == {"_behaviors", "_propsBox", "forwardRef", "render"}

OwnFields(instance) == DOMAIN instance.own

ProtoMembers(instance, kinds) == {key \in DOMAIN instance.proto : instance.proto[key] \in kinds}

ValueCategory(value) ==
    IF value = "function" THEN "function"
    ELSE IF value \in {"behavior", "viewRef"} THEN "handle"
    ELSE "data"

HookThrows == SelectSeq(trace, LAMBDA e : e.step \in Hooks /\ e.out = "throw")

\* C18: every error report carries a context that matches the failure: the
\* reports of an operation are, in order, one per hook that threw, with the
\* phase of that hook, the entity whose hook it is, and isBehavior true
\* exactly when that entity is a behavior.
C18_ContextMatchesFailure ==
    /\ Len(reports) = Len(HookThrows)
    /\ \A p \in 1..Len(reports) :
        /\ reports[p].phase = HookThrows[p].step
        /\ reports[p].phase \in Hooks
        /\ reports[p].who = HookThrows[p].who
        /\ reports[p].isBehavior = (HookThrows[p].who /= 0)

C18_Witness ==
    /\ Len(reports) >= 2
    /\ \E p, q \in 1..Len(reports) :
        /\ reports[p].isBehavior
        /\ reports[p].phase = "onMount"
        /\ ~reports[q].isBehavior
        /\ reports[q].phase = "onMount"

\* ---------------------------------------------------------------- C19
\* the value of a field after the first n configure() calls: the one the
\* latest of those calls that mentions the field gave it, else the default
SettingAfter(field, n) ==
    LET mentions == {p \in 1..n : field \in DOMAIN configLog[p]}
    IN IF mentions = {} THEN DefaultConfig[field]
       ELSE configLog[CHOOSE p \in mentions : \A q \in mentions : q <= p][field]

\* C19: the error sink is last-write-wins: each report of an operation is
\* delivered to the handler set by the most recent configure() call before it,
\* and a configure() call that omits a field leaves the field's previous value
\* in force.
C19_LastWriteWins ==
    /\ \A field \in ConfigFields : globalConfig[field] = SettingAfter(field, Len(configLog))
    /\ Len(delivered) = Len(reports)
    /\ \A p \in 1..Len(delivered) :
        /\ delivered[p].context = reports[p]
        /\ delivered[p].after <= Len(configLog)
        /\ delivered[p].handler = SettingAfter("onError", delivered[p].after)

C19_Witness ==
    /\ configAtCreate.onError = "console.error"
    /\ configLog = <<[f \in {"onError"} |-> "h2"], [f \in {"autoObservable"} |-> FALSE]>>
    /\ Len(delivered) >= 1
    /\ delivered[1].after = 2
    /\ delivered[1].handler = "h2"
    /\ ~globalConfig.autoObservable

\* ---------------------------------------------------------------- C20
\* a cleanup slot holds the pending value a hook returned
HoldsPending(slot) == slot.k = "promise"

PendingKept ==
    \/ HoldsPending(layoutFx.cleanup)
    \/ HoldsPending(passiveFx.cleanup)
    \/ \E v \in DOMAIN insts : \E i \in 1..Len(insts[v].behaviors) :
        \/ HoldsPending(insts[v].behaviors[i].layoutCleanup)
        \/ HoldsPending(insts[v].behaviors[i].cleanup)

\* C20 as claimed: when onLayoutMount or onMount, of a view or of a behavior,
\* returns a pending value, a diagnostic is emitted for it, the value is not
\* kept as a cleanup, and at unmount nothing is invoked for it and no error
\* arises from it.
C20_PendingValueIgnored ==
    /\ \A p \in 1..Len(trace) :
        (trace[p].step \in {"onLayoutMount", "onMount"} /\ trace[p].out = "promise")
            => \E q \in 1..Len(diagnostics) :
                diagnostics[q] = [phase |-> trace[p].step, who |-> trace[p].who]
    /\ ~PendingKept
    /\ \A p \in 1..Len(trace) : trace[p].out /= "typeerror"

\* ---------------------------------------------------------------- C21
CleanupSteps == {"cleanup", "layoutCleanup"}

\* the invocations of callables that mount hooks returned, in the latest operation
CleanupCalls ==
    {p \in 1..Len(trace) : trace[p].step \in CleanupSteps /\ trace[p].out /= "typeerror"}

\* C21: each cleanup callable returned by an onLayoutMount or onMount hook, of
\* the view or of a behavior, is invoked in the unmount that follows the mount
\* that returned it, once, and never again in a later unmount.
C21_CleanupExactlyOnce ==
    /\ \A p \in CleanupCalls : trace[p].gen = trace[p].at
    /\ \A p, q \in CleanupCalls :
        (trace[p].who = trace[q].who /\ trace[p].step = trace[q].step) => p = q

\* ---------------------------------------------------------------- C22
Explicit(factory) == "autoObservable" \in DOMAIN factory.options

\* the values the global flag had from the n-th to the m-th configure() call
GlobalBetween(n, m) == {SettingAfter("autoObservable", c) : c \in n..m}

\* C22: an explicit autoObservable option given to createView or createBehavior
\* decides the mode of the factory's instances whatever the global setting is;
\* without an option the global value applies; the global value is true until
\* a configure() call sets it.
C22_OptionDecidesMode ==
    /\ (\A p \in 1..Len(configLog) : "autoObservable" \notin DOMAIN configLog[p])
          => globalConfig.autoObservable
    /\ modes.classified =>
        /\ Explicit(viewFactory) => modes.view = viewFactory.options.autoObservable
        /\ ~Explicit(viewFactory) => modes.view \in GlobalBetween(viewFactory.after, modes.after)
        /\ AnnotationMap(lastInst.ann)
              = IF modes.view THEN Inferred(lastInst.instance) ELSE <<>>
        /\ modes.embedded =>
            /\ Explicit(behaviorFactory)
                  => modes.behavior = behaviorFactory.options.autoObservable
            /\ ~Explicit(behaviorFactory)
                  => modes.behavior \in GlobalBetween(behaviorFactory.after, modes.after)

C22_Witness ==
    /\ modes.classified
    /\ modes.embedded
    /\ Explicit(viewFactory)
    /\ viewFactory.options.autoObservable
    /\ viewFactory.after >= 1
    /\ ~SettingAfter("autoObservable", viewFactory.after)
    /\ ~globalConfig.autoObservable
    /\ modes.view
    /\ lastInst.ann /= <<>>
    /\ ~Explicit(behaviorFactory)
    /\ ~modes.behavior

\* ---------------------------------------------------------------- C23
\* C23: the default mode is read when an instance is created: without an
\* explicit option, the mode of a view instance and of its behaviors is the
\* global value left by the configure() calls made before the instance was
\* constructed, even those made after the factory was built.
C23_ModeReadAtCreation ==
    modes.classified =>
        /\ ~Explicit(viewFactory)
              => modes.view = SettingAfter("autoObservable", modes.after)
        /\ (modes.embedded /\ ~Explicit(behaviorFactory))
              => modes.behavior = SettingAfter("autoObservable", modes.after)

\* ---------------------------------------------------------------- C24
\* what configure() must leave alone: the instances with their behavior
\* lists, their phases and their annotations
InstancesAsCreated == <<insts, phaseLog, firstInst, lastInst, modes>>

\* C24: a configure() call leaves every already-created instance unchanged:
\* its AnnotationMap, its behavior list and its phase are the same before and
\* after the call.
C24_ConfigureFrame ==
    [][configLog' /= configLog => InstancesAsCreated' = InstancesAsCreated]_vars

C24_Witness ==
    /\ modes.classified
    /\ modes.after < Len(configLog)
    /\ modes.view
    /\ ~globalConfig.autoObservable
    /\ lastInst.ann /= <<>>
    /\ vmRef \in DOMAIN insts
    /\ Len(insts[vmRef].behaviors) = 1
    /\ phaseLog[vmRef] = <<"Created", "LayoutMounted", "Mounted">>

\* ---------------------------------------------------------------- C25
DeclaredKeys == {klass.declared.entries[p].key : p \in 1..Len(klass.declared.entries)}

\* C25: when the class carries declared annotations, only the decorated
\* members are classified as declared, every undecorated field and getter stays
\* unclassified, and every undecorated non-reserved prototype method below the
\* base class is classified as a bound action.
C25_DeclaredMode ==
    (made > 0 /\ klass.declared.has) =>
        LET i == lastInst.instance
            m == AnnotationMap(lastInst.ann)
        IN /\ \A key \in (OwnFields(i) \cup ProtoMembers(i, {"getter", "setter"})) \ DeclaredKeys :
                key \notin Written(lastInst.ann)
           /\ \A key \in ProtoMembers(i, {"method"}) \ (DeclaredKeys \cup ReservedNames) :
                key \in Written(lastInst.ann) /\ m[key] = "action.bound"

\* ---------------------------------------------------------------- C26
\* the places of the properties _collectBehaviors had to register
Eligible ==
    {p \in 1..Len(ownAtCollect) :
        /\ ownAtCollect[p].key \notin {"_b", "_d"}
        /\ ownAtCollect[p].value = "behavior"}

\* C26: collect registers every behavior held in an own property whose name
\* does not start with '_', in declaration order, before the instance is made
\* observable; the list never changes afterwards: a behavior assigned in
\* onCreate or later is never added and a registered one is never removed.
C26_CollectedOnce ==
    /\ collectStage = "constructed" => behaviors_ = <<>>
    /\ collectStage \in {"collected", "wrapped"} =>
        /\ Len(behaviors_) = Cardinality(Eligible)
        /\ \A p \in Eligible :
            LET q == Cardinality({r \in Eligible : r <= p})
            IN /\ behaviors_[q].key = ownAtCollect[p].key
               /\ behaviors_[q].instance = ownAtCollect[p].value
    /\ collectStage = "collected" => ownProps = ownAtCollect

C26_Witness ==
    /\ collectStage = "wrapped"
    /\ assigns = 2
    /\ ownAtCollect = <<[key |-> "a", value |-> "plain"],
                        [key |-> "_b", value |-> "behavior"],
                        [key |-> "c", value |-> "behavior"]>>
    /\ ownProps = <<[key |-> "a", value |-> "behavior"],
                    [key |-> "_b", value |-> "behavior"]>>
    /\ behaviors_ = <<[key |-> "c", instance |-> "behavior"]>>

\* ---------------------------------------------------------------- C27
\* the classification a map gives a member, "none" when it has no entry
ClassOf(ann, key) == IF key \in Written(ann) THEN AnnotationMap(ann)[key] ELSE "none"

\* C27: a behavior is shape-inferred and lifecycle-driven like a view: with
\* the same members holding the same values, the behavior inferencer gives
\* every member the classification the view inferencer gives it, and a
\* behavior embedded in a behavior is driven through the lifecycle phases.
C27_BehaviorLikeView ==
    (InferenceRan /\ lastBehavior.made > 0 /\ lastBehavior.value = lastInst.value) =>
        /\ \A key \in {"count", "toString"} :
            ClassOf(lastBehavior.ann, key) = ClassOf(lastInst.ann, key)
        /\ (HasField(klass) /\ lastBehavior.value = "behavior")
              => Len(lastBehavior.entries) = 1

\* ---------------------------------------------------------------- C28
\* the last operation was a render pass whose output threw
RenderOutputThrew ==
    /\ op = "render"
    /\ Len(renderLog) > 0
    /\ renderLog[Len(renderLog)] = "outputThrows"

DataFields(instance) == {key \in OwnFields(instance) : instance.own[key] /= "function"}

\* values that are an object with exactly one field, `current`
SingleCurrentField == {"refLike", "viewRef"}

\* C29: in automatic mode an own non-function field holding an object with
\* exactly one field `current`, or a behavior instance, is observable.ref and
\* any other own non-function field is observable; a prototype getter is
\* computed; a prototype function is action.bound; reserved base-class names
\* get no classification.
C29_AutomaticRules ==
    InferenceRan =>
        LET i   == lastInst.instance
            ann == lastInst.ann
        IN /\ \A key \in DataFields(i) \ ReservedNames :
                ClassOf(ann, key) =
                    IF i.own[key] \in SingleCurrentField \cup {"behavior"}
                    THEN "observable.ref" ELSE "observable"
           /\ \A key \in ProtoMembers(i, {"getter"}) \ ReservedNames :
                ClassOf(ann, key) = "computed"
           /\ \A key \in (ProtoMembers(i, {"method"}) \ DataFields(i)) \ ReservedNames :
                ClassOf(ann, key) = "action.bound"
           /\ \A key \in ReservedNames : ClassOf(ann, key) = "none"

\* ---------------------------------------------------------------- C30
\* a and b are the same object, or objects with the same own keys and an
\* identical value under each key
SameKeysSameValues(a, b) ==
    \/ a.id = b.id
    \/ /\ a.id /= 0
       /\ b.id /= 0
       /\ DOMAIN a.c = DOMAIN b.c
       /\ \A key \in DOMAIN a.c : a.c[key] = b.c[key]

\* the step is a run of the deferred commit
CommitStep == op' \in {"layoutMount", "layoutCommit"} /\ stage' = "layoutDone"

\* C30: the deferred commit writes the props box if and only if the props
\* of the render that scheduled it differ from the committed snapshot, key
\* by key; when they do not differ it writes nothing and leaves the
\* snapshot as it was.
C30_CommitIffPropsDiffer ==
    [][CommitStep =>
          /\ wrote' = ~SameKeysSameValues(prevPropsRef, hostProps)
          /\ wrote' => prevPropsRef' = hostProps
          /\ ~wrote' => /\ prevPropsRef' = prevPropsRef
                        /\ insts'[vmRef]._propsBox = insts[vmRef]._propsBox]_vars

\* ---------------------------------------------------------------- C31
\* C31: shallowEqual is symmetric and returns true exactly when its
\* arguments are the same reference or have the same own keys with an
\* identical value under each key.
C31_ShallowEqualExact ==
    compared.done =>
        /\ compared.out = compared.back
        /\ compared.out = SameKeysSameValues(compared.a, compared.b)

\* ---------------------------------------------------------------- C32
\* the latest operation ran a deferred commit that wrote the props box
CommitWrote == op \in {"layoutMount", "layoutCommit"} /\ stage = "layoutDone" /\ wrote

DriftWarned == \E q \in 1..Len(diagnostics) : diagnostics[q].phase = "propsChange"

C32_UpdateProceeds ==
    CommitWrote =>
        /\ prevPropsRef = hostProps
        /\ BoxGet(insts[vmRef]._propsBox) = hostProps

\* ---------------------------------------------------------------- C33
\* the steps a completed construction logged, by name
StepNames(log) == [p \in DOMAIN log |-> log[p].step]

\* what a factory call that returned has done: the user constructor, then
\* onCreate at most once and only when the class defines it, then the
\* wrapping, the first two with the arguments of the call
ConstructedInOrder ==
    (construction.done /\ construction.value /= NullValue) =>
        /\ StepNames(construction.log) \in
              {<<"constructor", "onCreate", "wrap">>, <<"constructor", "wrap">>}
        /\ \A p \in DOMAIN construction.log :
              construction.log[p].step /= "wrap"
                  => construction.log[p].args = construction.args
        /\ isBehaviorValue(construction.value)

CallsOf(who, step) == {p \in 1..Len(trace) : trace[p].who = who /\ trace[p].step = step}

\* C34: the view's own layout cleanup is invoked exactly once, by the layout
\* effect's teardown, which has run before the mount effect's teardown
\* invokes the view's mount cleanup and onUnmount; every behavior's layout
\* cleanup is invoked in the mount effect's teardown, after the view's
\* onUnmount.
C34_ViewLayoutCleanupFirst ==
    [][/\ op' = "destroyLayout" =>
            /\ layoutFx.cleanup.k = "fn" =>
                  /\ Len(trace') = 1
                  /\ trace'[1].who = 0
                  /\ trace'[1].step = "layoutCleanup"
                  /\ trace'[1].gen = layoutFx.gen
            /\ layoutFx.cleanup.k = "none" => trace' = <<>>
            /\ \A p \in 1..Len(trace') : trace'[p].who = 0
            /\ layoutFx' = NoFx
       /\ op' = "destroyPassive" =>
            /\ layoutFx.vm /= passiveFx.vm
            /\ \A p \in 1..Len(trace') :
                  ~(trace'[p].who = 0 /\ trace'[p].step = "layoutCleanup")
            /\ \A p, q \in 1..Len(trace') :
                  (trace'[p].who > 0 /\ trace'[p].step = "layoutCleanup" /\ trace'[q].who = 0)
                      => q < p]_vars

\* the layout effect's teardown has invoked the view's layout cleanup while
\* the view's mount cleanup and a behavior's layout cleanup are still held
C34_Witness ==
    /\ op = "destroyLayout"
    /\ stage = "unmountL"
    /\ CallsOf(0, "layoutCleanup") = {1}
    /\ trace[1].out = "void"
    /\ passiveFx.vm = vmRef
    /\ passiveFx.cleanup.k = "fn"
    /\ "onUnmount" \in insts[vmRef].hooks
    /\ \E i \in 1..Len(insts[vmRef].behaviors) :
          insts[vmRef].behaviors[i].layoutCleanup.k = "fn"

\* ---------------------------------------------------------------- C35
\* the latest render replaced the instance after a class change
Replaced == op = "render" /\ stage = "rendered" /\ swaps > 0 /\ createOut = "ok"

\* a mount-phase hook of the current instance or of its behaviors has run in
\* the latest operation
MountHookRan ==
    /\ op \in {"layoutMount", "mount"}
    /\ \E p \in 1..Len(trace) : trace[p].step \in {"onLayoutMount", "onMount"}

\* the committed snapshot is reset by the render that creates the replacement
SnapshotReset == Replaced => prevPropsRef = hostProps

\* C35: on a hot-swap of a mounted view the old instance's unmount chain has
\* run before any mount-phase hook of the replacement runs, and the
\* committed snapshot is reset to the props of the render that created the
\* replacement.
C35_OldUnmountedFirst ==
    /\ SnapshotReset
    /\ MountHookRan => passiveFx.vm \in {0, vmRef}

\* ---------------------------------------------------------------- C36
\* the step is a render pass of a mounted instance whose class is unchanged
Rerender == op' = "render" /\ stage = "idle" /\ viewClass' = viewClass /\ ~escaped'

\* C36: the silent write of a render pass sets the shadow props value to the
\* props of the render and the forwarded handle to its ref, and changes
\* nothing else: the committed snapshot, the phases, the instance's
\* behaviors and hooks, the mounted effects with their captured cleanups
\* stay as they were and nothing is reported.
C36_SilentWriteFrame ==
    [][Rerender =>
          /\ vmRef' = vmRef
          /\ DOMAIN insts' = DOMAIN insts
          /\ BoxGet(insts'[vmRef]._propsBox) = hostProps'
          /\ insts'[vmRef].forwardRef = hostRef'
          /\ insts' = [insts EXCEPT ![vmRef] =
                          [insts[vmRef] EXCEPT !._propsBox = insts'[vmRef]._propsBox,
                                               !.forwardRef = hostRef']]
          /\ prevPropsRef' = prevPropsRef
          /\ phaseLog' = phaseLog
          /\ layoutFx' = layoutFx
          /\ passiveFx' = passiveFx
          /\ reports' = <<>>]_vars

\* a re-render with changed props of a view whose behavior holds a cleanup
C36_Witness ==
    /\ op = "render"
    /\ createOut = "none"
    /\ renders = 2
    /\ ~shallowEqual(prevPropsRef, hostProps)
    /\ BoxGet(Current._propsBox) = hostProps
    /\ Len(Current.behaviors) >= 1
    /\ Current.behaviors[1].cleanup.k = "fn"
    /\ passiveFx.cleanup.k = "fn"

\* ---------------------------------------------------------------- C37
\* how often the latest phase of the view called a hook of instance b
TimesCalled(b) == Cardinality({p \in 1..Len(shared.calls) : shared.calls[p].instance = b})

\* C37: in each phase of the view every distinct behavior instance it holds
\* receives the phase's hook at most once, also when two properties hold
\* the same instance.
C37_OncePerInstance == \A b \in Instances : TimesCalled(b) <= 1

\* ---------------------------------------------------------------- C38
\* C38: the deferred commit of the render that created an instance writes
\* nothing, the committed snapshot being the creation props already; a
\* commit writes only for a later render whose props differ from the
\* snapshot.
C38_NoCommitAtCreation ==
    [][CommitStep =>
          /\ createOut /= "none" =>
                /\ prevPropsRef = hostProps
                /\ ~wrote'
                /\ prevPropsRef' = prevPropsRef
          /\ wrote' =>
                /\ createOut = "none"
                /\ ~SameKeysSameValues(prevPropsRef, hostProps)]_vars

\* the first commit of an instance has run and has written nothing
C38_Witness ==
    /\ op = "layoutMount"
    /\ stage = "layoutDone"
    /\ createOut = "ok"
    /\ renders = 1
    /\ ~wrote
    /\ prevPropsRef = hostProps
    /\ hostProps.id = 1

\* ---------------------------------------------------------------- C39
MountAndUnmountHooks == {"onLayoutMount", "onMount", "onUnmount"}

\* the latest operation's invocations of `step` by `who` that threw
ThrowsOf(who, step) == {p \in CallsOf(who, step) : trace[p].out = "throw"}

\* every onLayoutMount, onMount and onUnmount invocation that threw has one
\* report with its context, and there is no other report
ReportsMatchThrows ==
    /\ \A who \in 0..MaxBehaviors : \A step \in MountAndUnmountHooks :
          CountReports(reports, step, who, who > 0) = Cardinality(ThrowsOf(who, step))
    /\ \A r \in 1..Len(reports) :
          /\ reports[r].phase \in MountAndUnmountHooks
          /\ ThrowsOf(reports[r].who, reports[r].phase) /= {}

\* C39 as claimed: the reports of an operation correspond one-to-one to the
\* hook invocations that threw in it, onCreate included.
C39_OneReportPerThrow ==
    /\ ReportsMatchThrows
    /\ OnCreateThrew => Len(reports) = 1

\* C39, amended: the reports correspond one-to-one to the onLayoutMount,
\* onMount and onUnmount invocations that threw; an onCreate that throws
\* produces no report and reaches the host.
C39_OneReportPerMountHookThrow ==
    /\ ReportsMatchThrows
    /\ OnCreateThrew => (reports = <<>> /\ escaped)

\* an unmount in which the view's and a behavior's onUnmount threw
C39_Witness ==
    /\ op = "destroyPassive"
    /\ Len(reports) = 2
    /\ ThrowsOf(0, "onUnmount") /= {}
    /\ ThrowsOf(1, "onUnmount") /= {}
    /\ \E p \in 1..Len(trace) : trace[p].step = "onUnmount" /\ trace[p].out = "void"

\* ---------------------------------------------------------------- C40
\* C40: after every render of an instance its forwardRef is the ref the host
\* supplied to that render.
C40_ForwardRefCurrent ==
    (vmRef /= 0 /\ vmRef \in DOMAIN insts) => insts[vmRef].forwardRef = hostRef

\* a re-render of an existing instance has been given a ref
C40_Witness ==
    /\ op = "render"
    /\ createOut = "none"
    /\ renders = 2
    /\ hostRef = 1
    /\ Current.forwardRef = 1

====
